---- MODULE Spec2Model ----
(***************************************************************************)
(* A model of TerryGUI's secure command layer: the OutputRedactor and the  *)
(* SecureString (security/secure_memory.py), the InputSanitizer            *)
(* (security/sanitizer.py), the TerraformRunner (core/terraform_runner.py),*)
(* the workspace and state inspectors, the TfvarsHandler, the              *)
(* ProjectManager, the Settings (config/settings.py) and the MainWindow    *)
(* operation plumbing (ui/main_window.py).                                 *)
(*                                                                         *)
(* A Python str is a sequence of one-character strings; a Python list is a *)
(* sequence; None is the model value None.                                 *)
(***************************************************************************)
EXTENDS Integers, Sequences, FiniteSets, TLC

VARIABLES
    \* ---- OutputRedactor (secure_memory.py)
    sensitive_values,   \* OutputRedactor.sensitive_values
    red_text,           \* the text argument of the last redact() call
    red_out,            \* the value the last redact() call returned
                        \* (both empty when the secrets changed since)
    red_depth,          \* 0: no call under the current secrets; 1: red_text came
                        \* from the caller; 2: red_text was a redact() result
    \* ---- one call of a runner or inspector operation
    bld_runner,         \* the object's terraform_binary and project_path
    bld_call,           \* the operation called and its arguments
    bld_phase,          \* "ready" before the call, "done" after it
    bld_raised,         \* the exception the call raised, or None
    bld_msg,            \* str() of that exception
    bld_spawned,        \* the argument vectors handed to process creation
    \* ---- one TerraformRunner executing commands (terraform_runner.py)
    _process,           \* TerraformRunner._process: 0 is None, 1 the Popen object
    ex_pc,              \* where the thread calling the operation stands
    stdout_lines,       \* _execute's local list stdout_lines
    stderr_lines,       \* _execute's local list stderr_lines
    ex_exit_code,       \* _execute's local exit_code
    ex_pending,         \* what _execute is about to return or raise
    ex_raised,          \* the exception _execute raised, or None
    ex_result,          \* the CommandResult the operation produced
    ex_callback,        \* the lines passed to output_callback, in call order,
                        \* each with the stream it was read from
    ch_sent,            \* the lines the child has written, in order, each with
                        \* the stream it was written to
    ex_spawn_failed,    \* subprocess.Popen raised OSError in this execution
    ex_elapsed,         \* _timeout seconds have passed since Popen returned
    ex_late,            \* the child had not finished when they had passed
    th_pc,              \* where the stderr reader thread stands
    ch_state,           \* the child process: "none", "running" or "exited"
    ch_out_open,        \* the child holds its stdout open
    ch_err_open,        \* the child holds its stderr open
    ch_out_buf,         \* lines written to the stdout pipe and not yet read
    ch_err_buf,         \* lines written to the stderr pipe and not yet read
    ch_budget,          \* the lines the child may still write
    ch_code,            \* the child's return code
    ch_signalled,       \* terminate() has signalled the child
    ui_pc,              \* where a cancel() call on the UI thread stands
    ui_raised,          \* the exception a cancel() call raised, or None
    ui_cancels,         \* the cancel() calls made so far
    \* ---- MainWindow (main_window.py), its worker and Qt's event queue
    confirmations,      \* settings "confirmations.apply" and "confirmations.destroy"
    current_project_path,   \* MainWindow.current_project_path: 0 is None
    terraform_runner,   \* MainWindow.terraform_runner: 0 is None, or the runner's id
    _init_done,         \* MainWindow._init_done
    _worker,            \* MainWindow._worker, with the dialog accepted for its
                        \* request and the confirmation setting at that time
    _worker_thread,     \* MainWindow._worker_thread: 0 is None, or the thread's id
    _pending_result,    \* MainWindow._pending_result
    enabled,            \* the enabled flag of each button
    viewer,             \* the lines the output viewer shows
    dialog,             \* the operation of the open ConfirmDialog, or "none"
    panel_name,         \* the name of the project's sensitive variable
    panel_value,        \* the text in that variable's field
    qthreads,           \* the QThreads that are running
    quit_requested,     \* quit() was called on the worker's thread
    ui_queue,           \* the events queued to the UI thread
    wk_pc,              \* where the worker stands
    wk_stdout,          \* stdout_lines of the worker's _execute
    wk_stderr,          \* stderr_lines of the worker's _execute
    wk_budget,          \* the lines the worker's child may still write
    wk_signalled,       \* cancel() has signalled the worker's child
    orphans,            \* children signalled on timeout and still running
    gui_spawned,        \* the command a worker last handed to Popen
    op_secret,          \* the sensitive value entered when the last operation started
    gui_ops,            \* the operations started so far
    gui_loads,          \* the projects loaded so far
    \* ---- one call of an InputSanitizer function (security/sanitizer.py)
    san_call,           \* the function called and its arguments
    san_phase,          \* "ready" before the call, "done" after it
    san_result,         \* what the call returned or raised
    \* ---- one SecureString object (security/secure_memory.py)
    ss_self,            \* the object's _value and _cleared
    ss_wrapped,         \* the value the constructor was given
    ss_op,              \* the method called last, or None
    ss_last,            \* what that call returned or raised
    ss_clear_ran,       \* clear() or __exit__() has run on the object
    ss_calls,           \* the calls made so far
    \* ---- one call of a function that parses command output or writes a file
    txt_call,           \* the function called, its arguments and what it read
    txt_phase,          \* "ready" before the call, "done" after it
    txt_result,         \* what the call returned, or the file it wrote
    \* ---- one ProjectManager and its .tfgui file (core/project_manager.py)
    _state,             \* ProjectManager._state: its variables section
    tfgui_file,         \* the .tfgui file: whether it exists and its variables section
    pm_sensitive,       \* the names whose variable is sensitive-flagged now
    pm_written,         \* what save() wrote last, and the names flagged then
    pm_phase,           \* "open" until the window is closed
    pm_calls,           \* the calls made so far
    \* ---- the shared defaults and one Settings object (config/settings.py)
    st_heap,            \* the dicts and lists that exist, by reference
    _settings,          \* Settings._settings: its top-level dict
    config_file,        \* settings.json: whether it exists and what it holds
    st_phase,           \* "new" until load() has run in __init__
    st_added,           \* for each path added so far, the call that added it last
    st_budget,          \* the calls that may still be made
    st_calls            \* the calls made so far

redVars == <<sensitive_values, red_text, red_out, red_depth>>
bldVars == <<bld_runner, bld_call, bld_phase, bld_raised, bld_msg, bld_spawned>>
workerVars == <<ex_pc, stdout_lines, ex_exit_code, ex_pending, ex_raised,
                ex_result, ex_spawn_failed>>
threadVars == <<stderr_lines, th_pc>>
clockVars == <<ex_elapsed, ex_late>>
childVars == <<ch_state, ch_out_open, ch_err_open, ch_out_buf, ch_err_buf,
               ch_budget, ch_code, ch_signalled>>
cancelVars == <<ui_pc, ui_raised, ui_cancels>>
execVars == <<_process, workerVars, threadVars, clockVars, childVars, cancelVars,
              ex_callback, ch_sent>>
guiVars == <<confirmations, current_project_path, terraform_runner, _init_done,
             _worker, _worker_thread, _pending_result, enabled, viewer, dialog,
             panel_name, panel_value, qthreads, quit_requested, ui_queue, wk_pc,
             wk_stdout, wk_stderr, wk_budget, wk_signalled, orphans, gui_spawned,
             op_secret, gui_ops, gui_loads>>
sanVars == <<san_call, san_phase, san_result>>
secVars == <<ss_self, ss_wrapped, ss_op, ss_last, ss_clear_ran, ss_calls>>
txtVars == <<txt_call, txt_phase, txt_result>>
pmVars == <<_state, tfgui_file, pm_sensitive, pm_written, pm_phase, pm_calls>>
stVars == <<st_heap, _settings, config_file, st_phase, st_added, st_budget, st_calls>>
vars == <<redVars, bldVars, execVars, guiVars, sanVars, secVars, txtVars,
          pmVars, stVars>>

\* The variables of the other parts, which an action of one part leaves alone
notRed == <<bldVars, execVars, guiVars, sanVars, secVars, txtVars, pmVars,
            stVars>>
notBld == <<redVars, execVars, guiVars, sanVars, secVars, txtVars, pmVars,
            stVars>>
notExec == <<redVars, bldVars, guiVars, sanVars, secVars, txtVars, pmVars,
             stVars>>
notGui == <<redVars, bldVars, execVars, sanVars, secVars, txtVars, pmVars,
            stVars>>
notSan == <<redVars, bldVars, execVars, guiVars, secVars, txtVars, pmVars,
            stVars>>
notSec == <<redVars, bldVars, execVars, guiVars, sanVars, txtVars, pmVars,
            stVars>>
notTxt == <<redVars, bldVars, execVars, guiVars, sanVars, secVars, pmVars,
            stVars>>
notPm == <<redVars, bldVars, execVars, guiVars, sanVars, secVars, txtVars,
           stVars>>
notSt == <<redVars, bldVars, execVars, guiVars, sanVars, secVars, txtVars,
           pmVars>>

None == "None"

(***************************************************************************)
(* Strings                                                                 *)
(***************************************************************************)

\* Python: sub in s
Contains(s, sub) ==
    \E i \in 0..(Len(s) - Len(sub)) : SubSeq(s, i + 1, i + Len(sub)) = sub

\* Python: s.startswith(p)
StartsWith(s, p) == Len(p) <= Len(s) /\ SubSeq(s, 1, Len(p)) = p

\* All strings over alphabet A of length at most n
StringsUpTo(A, n) == UNION {[1..k -> A] : k \in 0..n}

\* All sequences over S of length at most n
SeqsUpTo(S, n) == UNION {[1..k -> S] : k \in 0..n}

(***************************************************************************)
(* OutputRedactor                                                          *)
(***************************************************************************)

\* The marker of secure_memory.py:175
REDACTED == <<"[", "R", "E", "D", "A", "C", "T", "E", "D", "]">>

\* The start positions (from 0) at which old occurs in s
Occurrences(s, old) ==
    {i \in 0..(Len(s) - Len(old)) : SubSeq(s, i + 1, i + Len(old)) = old}

\* Python: s.replace(old, new) for a non-empty old: the occurrences are taken
\* from the left and do not overlap
RECURSIVE replace(_, _, _)
replace(s, old, new) ==
    LET found == Occurrences(s, old)
    IN  IF found = {} THEN s
        ELSE LET first == CHOOSE i \in found : \A j \in found : i <= j
             IN  SubSeq(s, 1, first) \o new
                 \o replace(SubSeq(s, first + Len(old) + 1, Len(s)), old, new)

\* The loop of OutputRedactor.redact over the registered values, in list order
RECURSIVE redact_loop(_, _)
redact_loop(redacted, values) ==
    IF values = <<>> THEN redacted
    ELSE redact_loop(
            IF Head(values) = <<>> THEN redacted
            ELSE replace(redacted, Head(values), REDACTED),
            Tail(values))

\* OutputRedactor.redact
redact(values, text) ==
    IF text = <<>> THEN text ELSE redact_loop(text, values)

\* The values add_sensitive_values appends for the entries of its dict, in order:
\* only SecureString entries whose get_value() succeeds and is non-empty
RECURSIVE registered(_)
registered(entries) ==
    IF entries = <<>> THEN <<>>
    ELSE LET e == Head(entries)
         IN  (IF e.secure /\ ~e.cleared /\ e.value # <<>>
              THEN <<e.value>> ELSE <<>>) \o registered(Tail(entries))

\* ---- bounds of the redactor's inputs
MaxSecrets == 2
MaxSecretLen == 2
MaxTextLen == 2
MaxDict == 1

RedAlphabet == {"a", "D", "]"}
SecretStrings == StringsUpTo(RedAlphabet, MaxSecretLen)
RedTexts == StringsUpTo(RedAlphabet, MaxTextLen)

\* The values of a sensitive_variables dict: a SecureString (live or cleared)
\* or some other object
DictEntries ==
    {[secure |-> TRUE, cleared |-> FALSE, value |-> v] : v \in SecretStrings}
    \cup {[secure |-> TRUE, cleared |-> TRUE, value |-> <<>>],
          [secure |-> FALSE, cleared |-> FALSE, value |-> <<"a">>]}

RedInit ==
    /\ sensitive_values = <<>>
    /\ red_text = <<>>
    /\ red_out = <<>>
    /\ red_depth = 0

\* OutputRedactor.add_sensitive_values(sensitive_variables)
add_sensitive_values ==
    \E entries \in SeqsUpTo(DictEntries, MaxDict) :
        /\ Len(sensitive_values) + Len(registered(entries)) <= MaxSecrets
        /\ sensitive_values' = sensitive_values \o registered(entries)
        /\ red_depth' = 0 /\ red_text' = <<>> /\ red_out' = <<>>
        /\ UNCHANGED notRed

\* OutputRedactor.redact(text) on a text of the caller
redact_text ==
    \E text \in RedTexts :
        /\ red_text' = text
        /\ red_out' = redact(sensitive_values, text)
        /\ red_depth' = 1
        /\ UNCHANGED <<sensitive_values, notRed>>

\* OutputRedactor.redact(text) on the result of the previous call
redact_again ==
    /\ red_depth = 1
    /\ red_text' = red_out
    /\ red_out' = redact(sensitive_values, red_out)
    /\ red_depth' = 2
    /\ UNCHANGED <<sensitive_values, notRed>>

\* OutputRedactor.clear
redactor_clear ==
    /\ sensitive_values # <<>>
    /\ sensitive_values' = <<>>
    /\ red_depth' = 0 /\ red_text' = <<>> /\ red_out' = <<>>
    /\ UNCHANGED notRed

RedNext == add_sensitive_values \/ redact_text \/ redact_again \/ redactor_clear

(***************************************************************************)
(* InputSanitizer (security/sanitizer.py)                                  *)
(***************************************************************************)

\* The characters U+0000 and U+0060 (the backtick), which a TLA+ string
\* cannot hold
NUL == "NUL"
BACKTICK == "BACKTICK"
LF == "\n"
CR == "\r"

LowerSeq == <<"a", "b", "c", "d", "e", "f", "g", "h", "i", "j", "k", "l",
    "m", "n", "o", "p", "q", "r", "s", "t", "u", "v", "w", "x", "y", "z">>
UpperSeq == <<"A", "B", "C", "D", "E", "F", "G", "H", "I", "J", "K", "L",
    "M", "N", "O", "P", "Q", "R", "S", "T", "U", "V", "W", "X", "Y", "Z">>
Digits == {"0", "1", "2", "3", "4", "5", "6", "7", "8", "9"}
Letters == {LowerSeq[i] : i \in 1..26} \cup {UpperSeq[i] : i \in 1..26}
Whitespace == {" ", "\t", LF, CR, "\f"}

\* Python: str.lower(), on the ASCII letters
lower_char(c) ==
    IF \E i \in 1..26 : UpperSeq[i] = c
    THEN LowerSeq[CHOOSE i \in 1..26 : UpperSeq[i] = c]
    ELSE c
lower(s) == [i \in 1..Len(s) |-> lower_char(s[i])]

\* Python: str.strip()
RECURSIVE lstrip(_)
lstrip(s) == IF s # <<>> /\ Head(s) \in Whitespace THEN lstrip(Tail(s)) ELSE s
RECURSIVE rstrip(_)
rstrip(s) ==
    IF s # <<>> /\ s[Len(s)] \in Whitespace
    THEN rstrip(SubSeq(s, 1, Len(s) - 1)) ELSE s
strip(s) == rstrip(lstrip(s))

\* What a regular expression's $ leaves to match: re.match lets $ match at
\* the end of the string and also just before one trailing line feed
BeforeDollar(s) ==
    {s} \cup (IF s # <<>> /\ s[Len(s)] = LF
              THEN {SubSeq(s, 1, Len(s) - 1)} ELSE {})

\* sanitizer.py:34-36
MAX_VARIABLE_NAME_LENGTH == 255
MAX_VARIABLE_VALUE_LENGTH == 4096
MAX_WORKSPACE_NAME_LENGTH == 90
\* sanitizer.py:254
MAX_COMMAND_ARG_LENGTH == 10000

\* sanitizer.py:41, BLOCKED_VALUE_CHARS, listed in the order of the literal
BlockedSeq == <<";", "|", "&", "$", BACKTICK, "\\", "\"", LF, CR>>
\* The set without the carriage return
BLOCKED_VALUE_CHARS_without_CR == {BlockedSeq[i] : i \in 1..Len(BlockedSeq)} \ {CR}

BLOCKED_VALUE_CHARS == {BlockedSeq[i] : i \in 1..Len(BlockedSeq)}

\* sanitizer.py:31, VARIABLE_NAME_PATTERN.match(name)
VARIABLE_NAME_PATTERN(name) ==
    \E core \in BeforeDollar(name) :
        /\ core # <<>>
        /\ core[1] \in Letters \cup {"_"}
        /\ \A i \in 2..Len(core) : core[i] \in Letters \cup Digits \cup {"_", "-"}

\* sanitizer.py:227, re.match(r'^[a-zA-Z0-9_-]+$', name)
WORKSPACE_NAME_PATTERN(name) ==
    \E core \in BeforeDollar(name) :
        /\ core # <<>>
        /\ \A i \in 1..Len(core) : core[i] \in Letters \cup Digits \cup {"_", "-"}

\* The result of a call: a returned value, or a raised exception with the
\* text str(exc) yields
Returned(v) == [ok |-> TRUE, value |-> v, exc |-> None, msg |-> <<>>]
Raised(kind, text) == [ok |-> FALSE, value |-> <<>>, exc |-> kind, msg |-> text]
SecurityError(text) == Raised("SecurityError", text)

\* "Variable name cannot be empty"
M_name_empty == <<"V", "a", "r", "i", "a", "b", "l", "e", " ", "n", "a", "m",
    "e", " ", "c", "a", "n", "n", "o", "t", " ", "b", "e", " ", "e", "m", "p",
    "t", "y">>
\* "Variable name too long (max 255)"
M_name_too_long == <<"V", "a", "r", "i", "a", "b", "l", "e", " ", "n", "a",
    "m", "e", " ", "t", "o", "o", " ", "l", "o", "n", "g", " ", "(", "m", "a",
    "x", " ", "2", "5", "5", ")">>
\* "Invalid variable name '"
M_invalid_name == <<"I", "n", "v", "a", "l", "i", "d", " ", "v", "a", "r",
    "i", "a", "b", "l", "e", " ", "n", "a", "m", "e", " ", "'">>
\* "Variable value too long (max 4096)"
M_value_too_long == <<"V", "a", "r", "i", "a", "b", "l", "e", " ", "v", "a",
    "l", "u", "e", " ", "t", "o", "o", " ", "l", "o", "n", "g", " ", "(", "m",
    "a", "x", " ", "4", "0", "9", "6", ")">>
\* "Invalid boolean value: "
M_invalid_boolean == <<"I", "n", "v", "a", "l", "i", "d", " ", "b", "o",
    "o", "l", "e", "a", "n", " ", "v", "a", "l", "u", "e", ":", " ">>
\* "Invalid number value: "
M_invalid_number == <<"I", "n", "v", "a", "l", "i", "d", " ", "n", "u", "m",
    "b", "e", "r", " ", "v", "a", "l", "u", "e", ":", " ">>
\* "Invalid JSON for "
M_invalid_json == <<"I", "n", "v", "a", "l", "i", "d", " ", "J", "S", "O",
    "N", " ", "f", "o", "r", " ">>
\* "Value contains forbidden characters: "
M_forbidden == <<"V", "a", "l", "u", "e", " ", "c", "o", "n", "t", "a", "i",
    "n", "s", " ", "f", "o", "r", "b", "i", "d", "d", "e", "n", " ", "c", "h",
    "a", "r", "a", "c", "t", "e", "r", "s", ":", " ">>
\* "Workspace name cannot be empty"
M_ws_empty == <<"W", "o", "r", "k", "s", "p", "a", "c", "e", " ", "n", "a",
    "m", "e", " ", "c", "a", "n", "n", "o", "t", " ", "b", "e", " ", "e", "m",
    "p", "t", "y">>
\* "Workspace name too long (max 90)"
M_ws_too_long == <<"W", "o", "r", "k", "s", "p", "a", "c", "e", " ", "n",
    "a", "m", "e", " ", "t", "o", "o", " ", "l", "o", "n", "g", " ", "(", "m",
    "a", "x", " ", "9", "0", ")">>
\* "Workspace name cannot start with hyphen"
M_ws_hyphen == <<"W", "o", "r", "k", "s", "p", "a", "c", "e", " ", "n", "a",
    "m", "e", " ", "c", "a", "n", "n", "o", "t", " ", "s", "t", "a", "r", "t",
    " ", "w", "i", "t", "h", " ", "h", "y", "p", "h", "e", "n">>
\* "Invalid workspace name '"
M_ws_invalid == <<"I", "n", "v", "a", "l", "i", "d", " ", "w", "o", "r", "k",
    "s", "p", "a", "c", "e", " ", "n", "a", "m", "e", " ", "'">>

\* InputSanitizer.sanitize_variable_name
sanitize_variable_name(name) ==
    IF name = <<>> THEN SecurityError(M_name_empty)
    ELSE IF Len(name) > MAX_VARIABLE_NAME_LENGTH THEN SecurityError(M_name_too_long)
    ELSE IF ~VARIABLE_NAME_PATTERN(name)
         THEN SecurityError(M_invalid_name \o name \o <<"'">>)
    ELSE Returned(name)

\* ---- Python values: a str, a bool, None or a list of str
PyStr(s) == [t |-> "str", s |-> s, b |-> FALSE, l |-> <<>>]
PyBool(b) == [t |-> "bool", s |-> <<>>, b |-> b, l |-> <<>>]
PyNone == [t |-> "none", s |-> <<>>, b |-> FALSE, l |-> <<>>]
PyList(items) == [t |-> "list", s |-> <<>>, b |-> FALSE, l |-> items]

S_true == <<"t", "r", "u", "e">>
S_false == <<"f", "a", "l", "s", "e">>
S_True == <<"T", "r", "u", "e">>
S_False == <<"F", "a", "l", "s", "e">>
S_null == <<"n", "u", "l", "l">>
S_inf == <<"i", "n", "f">>
S_infinity == <<"i", "n", "f", "i", "n", "i", "t", "y">>
S_nan == <<"n", "a", "n">>

\* Python: sep.join(parts)
RECURSIVE str_join(_, _)
str_join(sep, parts) ==
    IF parts = <<>> THEN <<>>
    ELSE IF Len(parts) = 1 THEN parts[1]
    ELSE parts[1] \o sep \o str_join(sep, Tail(parts))

\* The concatenation of the strings of a sequence, by halves
RECURSIVE concat(_)
concat(parts) ==
    IF parts = <<>> THEN <<>>
    ELSE IF Len(parts) = 1 THEN parts[1]
    ELSE LET half == Len(parts) \div 2
         IN  concat(SubSeq(parts, 1, half))
                \o concat(SubSeq(parts, half + 1, Len(parts)))

\* Python: repr(s) of a str: in single quotes, or in double quotes when s
\* holds a single quote and no double quote; the quote, the backslash and
\* the control characters are escaped
py_repr(s) ==
    LET chars == {s[i] : i \in 1..Len(s)}
        quote == IF "'" \in chars /\ "\"" \notin chars THEN "\"" ELSE "'"
        esc(c) == CASE c = "\\" -> <<"\\", "\\">>
                    [] c = quote -> <<"\\", c>>
                    [] c = LF -> <<"\\", "n">>
                    [] c = CR -> <<"\\", "r">>
                    [] c = "\t" -> <<"\\", "t">>
                    [] c = NUL -> <<"\\", "x", "0", "0">>
                    [] OTHER -> <<c>>
    IN  <<quote>> \o concat([i \in 1..Len(s) |-> esc(s[i])]) \o <<quote>>

\* Python: json.dumps(s) of a str
json_string(s) ==
    LET esc(c) == CASE c = "\\" -> <<"\\", "\\">>
                    [] c = "\"" -> <<"\\", "\"">>
                    [] c = LF -> <<"\\", "n">>
                    [] c = CR -> <<"\\", "r">>
                    [] c = "\t" -> <<"\\", "t">>
                    [] c = NUL -> <<"\\", "u", "0", "0", "0", "0">>
                    [] OTHER -> <<c>>
    IN  <<"\"">> \o concat([i \in 1..Len(s) |-> esc(s[i])]) \o <<"\"">>

\* Python: str(value)
py_str(value) ==
    CASE value.t = "str" -> value.s
      [] value.t = "bool" -> IF value.b THEN S_True ELSE S_False
      [] value.t = "list" ->
            <<"[">> \o str_join(<<",", " ">>,
                                [i \in 1..Len(value.l) |-> py_repr(value.l[i])])
                   \o <<"]">>
      [] OTHER -> <<"N", "o", "n", "e">>

\* Python: json.dumps(value) of a value that is not a str
json_dumps(value) ==
    CASE value.t = "bool" -> IF value.b THEN S_true ELSE S_false
      [] value.t = "list" ->
            <<"[">> \o str_join(<<",", " ">>,
                                [i \in 1..Len(value.l) |-> json_string(value.l[i])])
                   \o <<"]">>
      [] OTHER -> S_null

\* A digit part of a Python numeric literal: digits, single underscores between
DigitPart(s) ==
    /\ s # <<>>
    /\ \A i \in 1..Len(s) : s[i] \in Digits \cup {"_"}
    /\ s[1] # "_" /\ s[Len(s)] # "_"
    /\ \A i \in 1..(Len(s) - 1) : ~(s[i] = "_" /\ s[i + 1] = "_")

Unsigned(s) == IF s # <<>> /\ s[1] \in {"+", "-"} THEN Tail(s) ELSE s

\* Python: float(s) succeeds. Strings longer than a literal of the model's
\* inputs are told apart by their characters alone
FloatChars == Digits \cup Letters \cup Whitespace \cup {"+", "-", ".", "_"}
IsPyFloat(s) ==
    /\ \A i \in 1..Len(s) : s[i] \in FloatChars
    /\ LET body == Unsigned(strip(s))
           n == Len(body)
       IN  \/ lower(body) \in {S_inf, S_infinity, S_nan}
           \/ \E k \in 0..n :
                LET mant == SubSeq(body, 1, k)
                    expo == SubSeq(body, k + 1, n)
                IN  /\ \/ DigitPart(mant)
                       \/ \E j \in 1..k :
                            /\ mant[j] = "."
                            /\ LET a == SubSeq(mant, 1, j - 1)
                                   b == SubSeq(mant, j + 1, k)
                               IN  /\ a = <<>> \/ DigitPart(a)
                                   /\ b = <<>> \/ DigitPart(b)
                                   /\ a # <<>> \/ b # <<>>
                    /\ \/ expo = <<>>
                       \/ /\ expo[1] \in {"e", "E"}
                          /\ DigitPart(Unsigned(Tail(expo)))

\* A JSON number: -? int frac? exp?
IsJsonNumber(s) ==
    LET body == IF s # <<>> /\ s[1] = "-" THEN Tail(s) ELSE s
        n == Len(body)
        AllDigits(d) == d # <<>> /\ \A i \in 1..Len(d) : d[i] \in Digits
    IN  \E k \in 1..n : \E m \in k..n :
            LET int == SubSeq(body, 1, k)
                frac == SubSeq(body, k + 1, m)
                expo == SubSeq(body, m + 1, n)
            IN  /\ AllDigits(int) /\ (int[1] = "0" => k = 1)
                /\ frac = <<>> \/ (frac[1] = "." /\ AllDigits(Tail(frac)))
                /\ \/ expo = <<>>
                   \/ /\ expo[1] \in {"e", "E"}
                      /\ AllDigits(Unsigned(Tail(expo)))

\* A JSON string without escapes
IsJsonString(s) ==
    /\ Len(s) >= 2 /\ s[1] = "\"" /\ s[Len(s)] = "\""
    /\ \A i \in 2..(Len(s) - 1) : s[i] \notin {"\"", "\\", LF, CR, "\t", NUL}

\* Python: json.loads(s) succeeds, for documents of scalars, strings without
\* escapes and arrays
RECURSIVE IsJsonValue(_)
RECURSIVE IsJsonElements(_)
IsJsonValue(s) ==
    LET v == strip(s)
    IN  \/ v \in {S_true, S_false, S_null}
        \/ IsJsonNumber(v)
        \/ IsJsonString(v)
        \/ /\ Len(v) >= 2 /\ v[1] = "[" /\ v[Len(v)] = "]"
           /\ LET inner == SubSeq(v, 2, Len(v) - 1)
              IN  strip(inner) = <<>> \/ IsJsonElements(inner)
IsJsonElements(s) ==
    \/ IsJsonValue(s)
    \/ \E k \in 1..Len(s) :
        /\ s[k] = ","
        /\ IsJsonValue(SubSeq(s, 1, k - 1))
        /\ IsJsonElements(SubSeq(s, k + 1, Len(s)))
JsonChars == Digits \cup Letters \cup Whitespace
                \cup {"+", "-", ".", "[", "]", ",", "\"", "_", "=", "/"}
IsJson(s) == (\A i \in 1..Len(s) : s[i] \in JsonChars) /\ IsJsonValue(s)

\* Python: repr of the set blocked_found (the order of a set's repr is not
\* fixed by the language; the order of the literal is taken)
RECURSIVE blocked_repr(_, _)
blocked_repr(found, i) ==
    IF i > Len(BlockedSeq) THEN <<>>
    ELSE (IF BlockedSeq[i] \in found
          THEN (IF \E j \in 1..(i - 1) : BlockedSeq[j] \in found
                THEN <<",", " ">> ELSE <<>>)
               \o <<"'">>
               \o (CASE BlockedSeq[i] = LF -> <<"\\", "n">>
                     [] BlockedSeq[i] = CR -> <<"\\", "r">>
                     [] BlockedSeq[i] = "\\" -> <<"\\", "\\">>
                     [] OTHER -> <<BlockedSeq[i]>>)
               \o <<"'">>
          ELSE <<>>) \o blocked_repr(found, i + 1)

\* InputSanitizer.sanitize_variable_value
sanitize_variable_value(value, var_type) ==
    IF value.t = "none" THEN Returned(<<>>)
    ELSE LET str_value == py_str(value)
         IN
    IF Len(str_value) > MAX_VARIABLE_VALUE_LENGTH THEN SecurityError(M_value_too_long)
    ELSE IF var_type = "bool" THEN
        IF value.t = "bool" THEN Returned(IF value.b THEN S_true ELSE S_false)
        ELSE IF lower(str_value) \in {S_true, S_false, <<"1">>, <<"0">>}
             THEN Returned(IF lower(str_value) \in {S_true, <<"1">>}
                           THEN S_true ELSE S_false)
        ELSE SecurityError(M_invalid_boolean \o str_value)
    ELSE IF var_type = "number" THEN
        IF IsPyFloat(str_value) THEN Returned(str_value)
        ELSE SecurityError(M_invalid_number \o str_value)
    ELSE IF var_type \in {"list", "map", "object"} THEN
        IF value.t = "str"
        THEN IF IsJson(value.s) THEN Returned(value.s)
             ELSE SecurityError(M_invalid_json)
        ELSE Returned(json_dumps(value))
    ELSE LET blocked_found == BLOCKED_VALUE_CHARS
                                \cap {str_value[i] : i \in 1..Len(str_value)}
         IN  IF blocked_found # {}
             THEN SecurityError(M_forbidden \o <<"{">>
                                \o blocked_repr(blocked_found, 1) \o <<"}">>)
             ELSE Returned(str_value)

\* InputSanitizer.sanitize_workspace_name
sanitize_workspace_name(name) ==
    IF name = <<>> THEN SecurityError(M_ws_empty)
    ELSE IF Len(name) > MAX_WORKSPACE_NAME_LENGTH THEN SecurityError(M_ws_too_long)
    ELSE IF name[1] = "-" THEN SecurityError(M_ws_hyphen)
    ELSE IF ~WORKSPACE_NAME_PATTERN(name)
         THEN SecurityError(M_ws_invalid \o name \o <<"'">>)
    ELSE Returned(name)

\* InputSanitizer.is_safe_command_arg
is_safe_command_arg(arg) ==
    /\ \A i \in 1..Len(arg) : arg[i] # NUL
    /\ Len(arg) <= MAX_COMMAND_ARG_LENGTH

\* ---- InputSanitizer.sanitize_path and the file system it looks at

\* "Path cannot be empty"
M_path_empty == <<"P", "a", "t", "h", " ", "c", "a", "n", "n", "o", "t", " ", "b", "e",
    " ", "e", "m", "p", "t", "y">>
\* "Path does not exist: "
M_path_missing == <<"P", "a", "t", "h", " ", "d", "o", "e", "s", " ", "n", "o", "t", " ",
    "e", "x", "i", "s", "t", ":", " ">>
\* "Path is not a directory: "
M_path_not_dir == <<"P", "a", "t", "h", " ", "i", "s", " ", "n", "o", "t", " ", "a", " ",
    "d", "i", "r", "e", "c", "t", "o", "r", "y", ":", " ">>
\* "Path must be within home directory or allowed locations: "
M_path_outside == <<"P", "a", "t", "h", " ", "m", "u", "s", "t", " ", "b", "e", " ", "w",
    "i", "t", "h", "i", "n", " ", "h", "o", "m", "e", " ", "d", "i", "r",
    "e", "c", "t", "o", "r", "y", " ", "o", "r", " ", "a", "l", "l", "o",
    "w", "e", "d", " ", "l", "o", "c", "a", "t", "i", "o", "n", "s", ":",
    " ">>

\* "/opt/terraform" and "/tmp/terraform"
S_opt_terraform == <<"/", "o", "p", "t", "/", "t", "e", "r", "r", "a", "f", "o", "r", "m">>
S_tmp_terraform == <<"/", "t", "m", "p", "/", "t", "e", "r", "r", "a", "f", "o", "r", "m">>

\* os.path.expanduser("~"): the home directory of the user
home_dir == <<"/", "h">>

\* The directories, the files and the symbolic links of the file system
FsDirectories ==
    {<<"/">>, home_dir, home_dir \o <<"/", "p">>, home_dir \o <<"-", "o">>,
     <<"/", "e">>, S_opt_terraform, S_opt_terraform \o <<"2">>,
     S_tmp_terraform, S_tmp_terraform \o <<"/", "w">>, <<"/", "t", "m", "p">>,
     <<"/", "o", "p", "t">>}
FsFiles == {home_dir \o <<"/", "f">>}
FsLinks ==
    (home_dir \o <<"/", "l">>) :> <<"/", "e">>
    @@ (<<"/", "e", "/", "l">>) :> (home_dir \o <<"/", "p">>)

\* os.path.expanduser(path)
expanduser(path) ==
    IF path = <<"~">> THEN home_dir
    ELSE IF StartsWith(path, <<"~", "/">>) THEN home_dir \o Tail(path)
    ELSE path

\* os.path.normpath on the absolute paths of this file system: "/d/.."
\* at the front of a path is the root
normpath(path) ==
    IF \E d \in FsDirectories :
            Len(d) = 2 /\ StartsWith(path, d \o <<"/", ".", ".", "/">>)
    THEN SubSeq(path, 6, Len(path))
    ELSE path

\* os.path.realpath(path) of an absolute path: the path is normalized and a
\* symbolic link is followed to its target
realpath(path) ==
    LET p == normpath(path)
    IN  IF p \in DOMAIN FsLinks THEN FsLinks[p] ELSE p

exists(path) == path \in FsDirectories \cup FsFiles
isdir(path) == path \in FsDirectories

allowed_prefixes == <<home_dir, S_opt_terraform, S_tmp_terraform>>

\* The test of sanitize_path on the resolved path
within_allowed(abs_path) ==
    \E i \in 1..Len(allowed_prefixes) : StartsWith(abs_path, allowed_prefixes[i])

\* InputSanitizer.sanitize_path
sanitize_path(path) ==
    IF path = <<>> THEN SecurityError(M_path_empty)
    ELSE LET abs_path == realpath(expanduser(path))
         IN  IF ~exists(abs_path) THEN SecurityError(M_path_missing \o path)
             ELSE IF ~isdir(abs_path) THEN SecurityError(M_path_not_dir \o path)
             ELSE IF ~within_allowed(abs_path)
                  THEN SecurityError(M_path_outside \o path)
             ELSE Returned(abs_path)

(***************************************************************************)
(* TerraformRunner command assembly (core/terraform_runner.py) and the     *)
(* inspectors' commands (core/workspace_manager.py, core/state_manager.py) *)
(***************************************************************************)

S_chdir == <<"-", "c", "h", "d", "i", "r", "=">>
S_init == <<"i", "n", "i", "t">>
S_validate == <<"v", "a", "l", "i", "d", "a", "t", "e">>
S_plan == <<"p", "l", "a", "n">>
S_apply == <<"a", "p", "p", "l", "y">>
S_destroy == <<"d", "e", "s", "t", "r", "o", "y">>
S_input_false == <<"-", "i", "n", "p", "u", "t", "=", "f", "a", "l", "s",
    "e">>
S_no_color == <<"-", "n", "o", "-", "c", "o", "l", "o", "r">>
S_auto_approve == <<"-", "a", "u", "t", "o", "-", "a", "p", "p", "r", "o",
    "v", "e">>
S_var == <<"-", "v", "a", "r">>
S_out == <<"-", "o", "u", "t", "=">>
S_backend_config == <<"-", "b", "a", "c", "k", "e", "n", "d", "-", "c", "o",
    "n", "f", "i", "g", "=">>
S_workspace == <<"w", "o", "r", "k", "s", "p", "a", "c", "e">>
S_select == <<"s", "e", "l", "e", "c", "t">>
S_new == <<"n", "e", "w">>
S_delete == <<"d", "e", "l", "e", "t", "e">>
S_force == <<"-", "f", "o", "r", "c", "e">>
S_state == <<"s", "t", "a", "t", "e">>
S_show == <<"s", "h", "o", "w">>

\* "Unsafe variable argument: "
M_unsafe_variable == <<"U", "n", "s", "a", "f", "e", " ", "v", "a", "r", "i",
    "a", "b", "l", "e", " ", "a", "r", "g", "u", "m", "e", "n", "t", ":", " ">>
\* "Unsafe backend-config argument: "
M_unsafe_backend == <<"U", "n", "s", "a", "f", "e", " ", "b", "a", "c", "k",
    "e", "n", "d", "-", "c", "o", "n", "f", "i", "g", " ", "a", "r", "g", "u",
    "m", "e", "n", "t", ":", " ">>
\* "Unsafe out file path: "
M_unsafe_out == <<"U", "n", "s", "a", "f", "e", " ", "o", "u", "t", " ", "f",
    "i", "l", "e", " ", "p", "a", "t", "h", ":", " ">>
\* "Unsafe project path for command argument"
M_unsafe_path == <<"U", "n", "s", "a", "f", "e", " ", "p", "r", "o", "j", "e",
    "c", "t", " ", "p", "a", "t", "h", " ", "f", "o", "r", " ", "c", "o", "m",
    "m", "a", "n", "d", " ", "a", "r", "g", "u", "m", "e", "n", "t">>
\* "Unsafe command argument: "
M_unsafe_arg == <<"U", "n", "s", "a", "f", "e", " ", "c", "o", "m", "m", "a",
    "n", "d", " ", "a", "r", "g", "u", "m", "e", "n", "t", ":", " ">>
\* "Invalid resource address: "
M_invalid_address == <<"I", "n", "v", "a", "l", "i", "d", " ", "r", "e", "s",
    "o", "u", "r", "c", "e", " ", "a", "d", "d", "r", "e", "s", "s", ":", " ">>

\* The text of an operation name
OpText(op) ==
    CASE op = "init" -> S_init
      [] op = "validate" -> S_validate
      [] op = "plan" -> S_plan
      [] op = "apply" -> S_apply
      [] op = "destroy" -> S_destroy

\* Python: the truth value of an Optional[str]
Truthy(v) == v.t = "str" /\ v.s # <<>>

\* TerraformRunner._build_base_command
_build_base_command(runner, operation) ==
    LET chdir_arg == S_chdir \o runner.project_path
    IN  IF ~is_safe_command_arg(chdir_arg) THEN SecurityError(M_unsafe_path)
        ELSE Returned(<<runner.terraform_binary, chdir_arg, OpText(operation)>>)

\* The type "string" whatever the mapping declares
var_type_of_string(var_types, name) == "string"

\* Python: var_types.get(name, "string")
var_type_of(var_types, name) ==
    IF name \in DOMAIN var_types THEN var_types[name] ELSE "string"

\* _add_variables that leaves an invalid variable out and goes on
RECURSIVE _add_variables_skipping(_, _, _)
_add_variables_skipping(cmd, variables, var_types) ==
    IF variables = <<>> THEN Returned(cmd)
    ELSE LET name == Head(variables).name
             checked == sanitize_variable_name(name)
             sanitized == sanitize_variable_value(Head(variables).value,
                                                  var_type_of(var_types, name))
             arg == name \o <<"=">> \o sanitized.value
         IN  IF ~checked.ok \/ ~sanitized.ok \/ ~is_safe_command_arg(arg)
             THEN _add_variables_skipping(cmd, Tail(variables), var_types)
             ELSE _add_variables_skipping(cmd \o <<S_var, arg>>,
                                          Tail(variables), var_types)

\* TerraformRunner._add_variables: the command with the -var pairs appended,
\* or the SecurityError of the first variable that fails
RECURSIVE _add_variables(_, _, _)
_add_variables(cmd, variables, var_types) ==
    IF variables = <<>> THEN Returned(cmd)
    ELSE LET name == Head(variables).name
             checked == sanitize_variable_name(name)
             sanitized == sanitize_variable_value(Head(variables).value,
                                                  var_type_of(var_types, name))
             arg == name \o <<"=">> \o sanitized.value
         IN  IF ~checked.ok THEN checked
             ELSE IF ~sanitized.ok THEN sanitized
             ELSE IF ~is_safe_command_arg(arg)
                  THEN SecurityError(M_unsafe_variable \o name)
             ELSE _add_variables(cmd \o <<S_var, arg>>, Tail(variables), var_types)

\* The backend_config loop of TerraformRunner.init
RECURSIVE add_backend_config(_, _)
add_backend_config(cmd, backend_config) ==
    IF backend_config = <<>> THEN Returned(cmd)
    ELSE LET key == Head(backend_config).name
             checked == sanitize_variable_name(key)
             sanitized == sanitize_variable_value(Head(backend_config).value, "string")
             arg == S_backend_config \o key \o <<"=">> \o sanitized.value
         IN  IF ~checked.ok THEN checked
             ELSE IF ~sanitized.ok THEN sanitized
             ELSE IF ~is_safe_command_arg(arg)
                  THEN SecurityError(M_unsafe_backend \o key)
             ELSE add_backend_config(Append(cmd, arg), Tail(backend_config))

\* The operations of the runner, up to the call of _execute: Returned(cmd) is
\* the command handed to _execute, a raise leaves the operation before it

\* TerraformRunner.init
init(runner, backend_config) ==
    LET base == _build_base_command(runner, "init")
    IN  IF ~base.ok THEN base
        ELSE add_backend_config(base.value \o <<S_input_false, S_no_color>>,
                                backend_config)

\* TerraformRunner.validate
validate(runner) ==
    LET base == _build_base_command(runner, "validate")
    IN  IF ~base.ok THEN base ELSE Returned(Append(base.value, S_no_color))

\* TerraformRunner.plan
plan(runner, variables, var_types, out_file) ==
    LET base == _build_base_command(runner, "plan")
    IN  IF ~base.ok THEN base
        ELSE LET cmd == base.value \o <<S_input_false, S_no_color>>
                 with_vars == IF variables # <<>>
                              THEN _add_variables(cmd, variables, var_types)
                              ELSE Returned(cmd)
             IN  IF ~with_vars.ok THEN with_vars
                 ELSE IF Truthy(out_file)
                      THEN IF ~is_safe_command_arg(out_file.s)
                           THEN SecurityError(M_unsafe_out \o out_file.s)
                           ELSE Returned(Append(with_vars.value, S_out \o out_file.s))
                 ELSE with_vars

\* apply and destroy that append -auto-approve whatever the caller passed
apply_or_destroy_approving(runner, operation, variables, var_types, auto_approve) ==
    LET base == _build_base_command(runner, operation)
    IN  IF ~base.ok THEN base
        ELSE LET cmd == base.value \o <<S_input_false, S_no_color, S_auto_approve>>
             IN  IF variables # <<>>
                 THEN _add_variables(cmd, variables, var_types)
                 ELSE Returned(cmd)

\* TerraformRunner.apply and TerraformRunner.destroy, which differ in the
\* subcommand alone
apply_or_destroy(runner, operation, variables, var_types, auto_approve) ==
    LET base == _build_base_command(runner, operation)
    IN  IF ~base.ok THEN base
        ELSE LET cmd == base.value \o <<S_input_false, S_no_color>>
                        \o (IF auto_approve THEN <<S_auto_approve>> ELSE <<>>)
             IN  IF variables # <<>>
                 THEN _add_variables(cmd, variables, var_types)
                 ELSE Returned(cmd)

apply(runner, variables, var_types, auto_approve) ==
    apply_or_destroy(runner, "apply", variables, var_types, auto_approve)

destroy(runner, variables, var_types, auto_approve) ==
    apply_or_destroy(runner, "destroy", variables, var_types, auto_approve)

\* WorkspaceManager._run and StateManager._run, up to subprocess.run
inspector_run(manager, args) ==
    LET cmd == <<manager.terraform_binary, S_chdir \o manager.project_path>> \o args
        unsafe == {i \in 1..Len(cmd) : ~is_safe_command_arg(cmd[i])}
    IN  IF unsafe # {}
        THEN SecurityError(M_unsafe_arg \o cmd[CHOOSE i \in unsafe :
                                               \A j \in unsafe : i <= j])
        ELSE Returned(cmd)

\* WorkspaceManager.switch_workspace
switch_workspace(manager, name) ==
    LET checked == sanitize_workspace_name(name)
    IN  IF ~checked.ok THEN checked
        ELSE inspector_run(manager, <<S_workspace, S_select, name>>)

\* WorkspaceManager.create_workspace
create_workspace(manager, name) ==
    LET checked == sanitize_workspace_name(name)
    IN  IF ~checked.ok THEN checked
        ELSE inspector_run(manager, <<S_workspace, S_new, name>>)

\* WorkspaceManager.delete_workspace
delete_workspace(manager, name, force) ==
    LET checked == sanitize_workspace_name(name)
    IN  IF ~checked.ok THEN checked
        ELSE inspector_run(manager, <<S_workspace, S_delete>>
                                    \o (IF force THEN <<S_force>> ELSE <<>>)
                                    \o <<name>>)

\* state_manager.py:20, _RESOURCE_ADDRESS_RE.match(address), with \w on ASCII
RESOURCE_ADDRESS_RE(address) ==
    \E core \in BeforeDollar(address) :
        /\ core # <<>>
        /\ \A i \in 1..Len(core) :
            core[i] \in Letters \cup Digits \cup {"_", ".", "[", "]", "\"", ":", "-"}

\* StateManager._validate_resource_address
_validate_resource_address(address) ==
    IF address = <<>> \/ ~RESOURCE_ADDRESS_RE(address)
    THEN SecurityError(M_invalid_address \o address)
    ELSE Returned(address)

\* StateManager.get_resource_details
get_resource_details(manager, address) ==
    LET checked == _validate_resource_address(address)
    IN  IF ~checked.ok THEN checked
        ELSE inspector_run(manager, <<S_state, S_show, S_no_color, address>>)

(***************************************************************************)
(* Command assembly as a state machine: a runner (or inspector) and the    *)
(* arguments of one call, then the call                                    *)
(***************************************************************************)

\* ---- bounds of the calls' inputs
MaxVars == 2
LongValueLen == 4097
LongOutFileLen == 9996

Pad(n) == [i \in 1..n |-> "x"]

RunnerOps == {"init", "validate", "plan", "apply", "destroy"}
InspectorOps == {"ws_select", "ws_new", "ws_delete", "state_show"}

\* terraform_binary comes from the settings file unchecked (main_window.py:604)
BldBinaries == {<<"t", "f">>, <<"t", NUL>>}
\* project_path is a result of sanitize_path
BldPaths == {<<"/", "h">>}
BldRunners == [terraform_binary : BldBinaries, project_path : BldPaths]

BldNames == {<<"a">>, <<"b">>, <<>>}
BldValues == {PyStr(<<"x">>), PyStr(<<"x", ";">>), PyStr(<<"x", NUL>>),
              PyStr(Pad(LongValueLen)), PyBool(TRUE), PyStr(<<"1">>)}
BldPairs == [name : BldNames, value : BldValues]
\* A dict in insertion order: its keys are distinct
Dicts(pairs, n) ==
    {d \in SeqsUpTo(pairs, n) :
        \A i, j \in 1..Len(d) : i # j => d[i].name # d[j].name}
BldVarTypes == {<<>>, (<<"a">> :> "bool") @@ (<<"b">> :> "number")}
BldOutFiles == {PyNone, PyStr(<<>>), PyStr(<<"p">>), PyStr(<<"p", NUL>>),
                PyStr(Pad(LongOutFileLen))}
BldBackendPairs ==
    [name : BldNames, value : {PyStr(<<"x">>), PyStr(<<"x", ";">>),
                               PyStr(<<"x", NUL>>), PyNone}]
BldWorkspaceNames == {<<"d">>, <<>>, <<"-", "d">>, <<"d", "/">>, <<"d", NUL>>,
                      Pad(MAX_WORKSPACE_NAME_LENGTH + 1)}
BldAddresses == {<<"a", ".", "b">>, <<>>, <<"a", ";">>, <<"a", " ">>}

NoCall == [op |-> "none", variables |-> <<>>, var_types |-> <<>>,
           out_file |-> PyNone, auto_approve |-> FALSE, backend_config |-> <<>>,
           name |-> <<>>, force |-> FALSE, address |-> <<>>]

\* The calls: an output file is combined with the short variable mappings
BldCalls ==
    {[NoCall EXCEPT !.op = "init", !.backend_config = bc] :
        bc \in Dicts(BldBackendPairs, MaxVars)}
    \cup {[NoCall EXCEPT !.op = "validate"]}
    \cup {[NoCall EXCEPT !.op = "plan", !.variables = vs, !.var_types = ts] :
            vs \in Dicts(BldPairs, MaxVars), ts \in BldVarTypes}
    \cup {[NoCall EXCEPT !.op = "plan", !.variables = vs, !.out_file = f] :
            vs \in Dicts(BldPairs, 1), f \in BldOutFiles}
    \cup {[NoCall EXCEPT !.op = op, !.variables = vs, !.var_types = ts,
                         !.auto_approve = aa] :
            op \in {"apply", "destroy"}, vs \in Dicts(BldPairs, MaxVars),
            ts \in BldVarTypes, aa \in BOOLEAN}
    \cup {[NoCall EXCEPT !.op = op, !.name = n, !.force = f] :
            op \in {"ws_select", "ws_new", "ws_delete"},
            n \in BldWorkspaceNames, f \in BOOLEAN}
    \cup {[NoCall EXCEPT !.op = "state_show", !.address = a] : a \in BldAddresses}

BldInit ==
    /\ bld_runner \in BldRunners
    /\ bld_call \in BldCalls
    /\ bld_phase = "ready"
    /\ bld_raised = None
    /\ bld_msg = <<>>
    /\ bld_spawned = <<>>

\* The call ends: with the exception raised, or with the command handed to
\* process creation (subprocess.Popen in _execute, subprocess.run in _run)
BldFinish(result) ==
    /\ bld_phase' = "done"
    /\ bld_raised' = result.exc
    /\ bld_msg' = result.msg
    /\ bld_spawned' = IF result.ok THEN <<result.value>> ELSE <<>>
    /\ UNCHANGED <<bld_runner, bld_call, notBld>>

BldReady(op) == bld_phase = "ready" /\ bld_call.op = op

RunnerInit == BldReady("init") /\ BldFinish(init(bld_runner, bld_call.backend_config))

RunnerValidate == BldReady("validate") /\ BldFinish(validate(bld_runner))

RunnerPlan ==
    /\ BldReady("plan")
    /\ BldFinish(plan(bld_runner, bld_call.variables, bld_call.var_types,
                      bld_call.out_file))

RunnerApply ==
    /\ BldReady("apply")
    /\ BldFinish(apply(bld_runner, bld_call.variables, bld_call.var_types,
                       bld_call.auto_approve))

RunnerDestroy ==
    /\ BldReady("destroy")
    /\ BldFinish(destroy(bld_runner, bld_call.variables, bld_call.var_types,
                         bld_call.auto_approve))

WorkspaceSwitch ==
    BldReady("ws_select") /\ BldFinish(switch_workspace(bld_runner, bld_call.name))

WorkspaceCreate ==
    BldReady("ws_new") /\ BldFinish(create_workspace(bld_runner, bld_call.name))

WorkspaceDelete ==
    /\ BldReady("ws_delete")
    /\ BldFinish(delete_workspace(bld_runner, bld_call.name, bld_call.force))

StateShow ==
    /\ BldReady("state_show")
    /\ BldFinish(get_resource_details(bld_runner, bld_call.address))

BldNext ==
    \/ RunnerInit \/ RunnerValidate \/ RunnerPlan \/ RunnerApply \/ RunnerDestroy
    \/ WorkspaceSwitch \/ WorkspaceCreate \/ WorkspaceDelete \/ StateShow

(***************************************************************************)
(* TerraformRunner._execute, the _OperationWorker.run that calls it, and   *)
(* TerraformRunner.cancel called from the UI thread while it runs          *)
(***************************************************************************)

\* "Command timed out"
S_timed_out == <<"C", "o", "m", "m", "a", "n", "d", " ", "t", "i", "m", "e",
    "d", " ", "o", "u", "t">>
\* "[Errno 2] No such file or directory"
M_errno2 == <<"[", "E", "r", "r", "n", "o", " ", "2", "]", " ", "N", "o",
    " ", "s", "u", "c", "h", " ", "f", "i", "l", "e", " ", "o", "r", " ",
    "d", "i", "r", "e", "c", "t", "o", "r", "y">>

\* Python: sep.join(lines)
RECURSIVE join(_, _)
join(sep, lines) ==
    IF lines = <<>> THEN <<>>
    ELSE IF Len(lines) = 1 THEN lines[1]
    ELSE lines[1] \o sep \o join(sep, Tail(lines))

\* Python: line.rstrip("\n")
RECURSIVE rstrip_newline(_)
rstrip_newline(line) ==
    IF line # <<>> /\ line[Len(line)] = LF
    THEN rstrip_newline(SubSeq(line, 1, Len(line) - 1))
    ELSE line

\* terraform_runner.py:19-25, CommandResult
CommandResult(exit_code, stdout, stderr, success, command) ==
    [exit_code |-> exit_code, stdout |-> stdout, stderr |-> stderr,
     success |-> success, command |-> command]

\* No result yet
NoResult == [exit_code |-> 0, stdout |-> <<>>, stderr |-> <<>>, success |-> FALSE,
             command |-> "none"]

\* What _execute has pending when its finally clause runs: the final return
\* statement ("normal"), the return of the except clause ("result") or an
\* exception that no clause caught ("raise")
Pending(kind, result, exc, msg) ==
    [kind |-> kind, result |-> result, exc |-> exc, msg |-> msg]
NoPending == Pending("none", NoResult, None, <<>>)

\* ---- bounds of one execution
MaxLines == 2
MaxCancels == 2

\* The lines a child writes, and the secrets of the runner's redactor
ExLines == {<<"o", LF>>, <<"s", LF>>}
ExSecretLists == {<<>>, << <<"s">> >>}
ExExitCodes == {0, 1}

\* The operation whose execution is followed
ex_operation == "init"

ExecInit ==
    /\ _process = 0
    /\ ex_pc = "idle"
    /\ stdout_lines = <<>>
    /\ stderr_lines = <<>>
    /\ ex_exit_code = 0
    /\ ex_pending = NoPending
    /\ ex_raised = None
    /\ ex_result = NoResult
    /\ ex_callback = <<>>
    /\ ch_sent = <<>>
    /\ ex_spawn_failed = FALSE
    /\ ex_elapsed = FALSE
    /\ ex_late = FALSE
    /\ th_pc = "none"
    /\ ch_state = "none"
    /\ ch_out_open = FALSE
    /\ ch_err_open = FALSE
    /\ ch_out_buf = <<>>
    /\ ch_err_buf = <<>>
    /\ ch_budget = 0
    /\ ch_code = 0
    /\ ch_signalled = FALSE
    /\ ui_pc = "idle"
    /\ ui_raised = None
    /\ ui_cancels = 0

\* Popen.terminate(): a child that has exited is left alone
terminate == ch_signalled' = (ch_signalled \/ ch_state = "running")

\* ---- the thread that calls the operation

\* _OperationWorker.run calls the runner's operation, which assembles the
\* command and calls _execute: the two lists are created
run_call ==
    /\ ex_pc = "idle"
    /\ ex_pc' = "popen"
    /\ stdout_lines' = <<>>
    /\ stderr_lines' = <<>>
    /\ UNCHANGED <<_process, ex_exit_code, ex_pending, ex_raised, ex_result,
                   ex_spawn_failed, th_pc, clockVars, childVars, cancelVars,
                   ex_callback, ch_sent, notExec>>

\* subprocess.Popen returns: the child runs with both pipes open
Popen_returns ==
    /\ ex_pc = "popen"
    /\ _process' = 1
    /\ ch_state' = "running"
    /\ ch_out_open' = TRUE
    /\ ch_err_open' = TRUE
    /\ ch_budget' = MaxLines
    /\ ex_pc' = "spawned"
    /\ UNCHANGED <<stdout_lines, ex_exit_code, ex_pending, ex_raised, ex_result,
                   ex_spawn_failed, threadVars, clockVars, ch_out_buf, ch_err_buf,
                   ch_code, ch_signalled, cancelVars, ex_callback, ch_sent, notExec>>

\* subprocess.Popen raises OSError (the binary does not exist): no except
\* clause of _execute matches, the finally clause runs next
Popen_raises ==
    /\ ex_pc = "popen"
    /\ ex_spawn_failed' = TRUE
    /\ ex_pending' = Pending("raise", NoResult, "OSError", M_errno2)
    /\ ex_pc' = "finally"
    /\ UNCHANGED <<_process, stdout_lines, ex_exit_code, ex_raised, ex_result,
                   threadVars, clockVars, childVars, cancelVars, ex_callback,
                   ch_sent, notExec>>

\* stderr_thread.start()
start_stderr_thread ==
    /\ ex_pc = "spawned"
    /\ th_pc' = "started"
    /\ ex_pc' = "stdout"
    /\ UNCHANGED <<_process, stdout_lines, stderr_lines, ex_exit_code, ex_pending,
                   ex_raised, ex_result, ex_spawn_failed, clockVars, childVars,
                   cancelVars, ex_callback, ch_sent, notExec>>

\* One turn of "for line in self._process.stdout"
read_stdout_line ==
    /\ ex_pc = "stdout"
    /\ ch_out_buf # <<>>
    /\ LET redacted == redact(sensitive_values, rstrip_newline(Head(ch_out_buf)))
       IN  /\ stdout_lines' = Append(stdout_lines, redacted)
           /\ ex_callback' =
                Append(ex_callback, [stream |-> "stdout", text |-> redacted])
    /\ ch_out_buf' = Tail(ch_out_buf)
    /\ UNCHANGED <<_process, ex_pc, ex_exit_code, ex_pending, ex_raised, ex_result,
                   ex_spawn_failed, threadVars, clockVars, ch_state, ch_out_open,
                   ch_err_open, ch_err_buf, ch_budget, ch_code, ch_signalled,
                   cancelVars, ch_sent, notExec>>

\* The stdout loop ends: the pipe is drained and every writer has closed it
stdout_eof ==
    /\ ex_pc = "stdout"
    /\ ch_out_buf = <<>>
    /\ ~ch_out_open
    /\ ex_pc' = "join"
    /\ UNCHANGED <<_process, stdout_lines, ex_exit_code, ex_pending, ex_raised,
                   ex_result, ex_spawn_failed, threadVars, clockVars, childVars,
                   cancelVars, ex_callback, ch_sent, notExec>>

\* stderr_thread.join(timeout=self._timeout) returns because the thread ended
join_returns ==
    /\ ex_pc = "join"
    /\ th_pc \in {"done", "failed"}
    /\ ex_pc' = "wait"
    /\ UNCHANGED <<_process, stdout_lines, ex_exit_code, ex_pending, ex_raised,
                   ex_result, ex_spawn_failed, threadVars, clockVars, childVars,
                   cancelVars, ex_callback, ch_sent, notExec>>

\* stderr_thread.join(timeout=self._timeout) returns because its timeout
\* passed: join raises nothing
join_times_out ==
    /\ ex_pc = "join"
    /\ th_pc \notin {"done", "failed"}
    /\ ex_elapsed
    /\ ex_pc' = "wait"
    /\ UNCHANGED <<_process, stdout_lines, ex_exit_code, ex_pending, ex_raised,
                   ex_result, ex_spawn_failed, threadVars, clockVars, childVars,
                   cancelVars, ex_callback, ch_sent, notExec>>

\* self._process.wait(timeout=self._timeout) returns; exit_code is read
wait_returns ==
    /\ ex_pc = "wait"
    /\ ch_state = "exited"
    /\ ex_exit_code' = ch_code
    /\ ex_pending' = Pending("normal", NoResult, None, <<>>)
    /\ ex_pc' = "finally"
    /\ UNCHANGED <<_process, stdout_lines, ex_raised, ex_result, ex_spawn_failed,
                   threadVars, clockVars, childVars, cancelVars, ex_callback,
                   ch_sent, notExec>>

\* self._process.wait(timeout=self._timeout) raises TimeoutExpired
wait_times_out ==
    /\ ex_pc = "wait"
    /\ ch_state = "running"
    /\ ex_elapsed
    /\ ex_pc' = "except"
    /\ UNCHANGED <<_process, stdout_lines, ex_exit_code, ex_pending, ex_raised,
                   ex_result, ex_spawn_failed, threadVars, clockVars, childVars,
                   cancelVars, ex_callback, ch_sent, notExec>>

\* The except clause: terminate the child and build the result to return
except_TimeoutExpired ==
    /\ ex_pc = "except"
    /\ IF _process # 0 THEN terminate ELSE UNCHANGED ch_signalled
    /\ ex_pending' =
            Pending("result",
                    CommandResult(-1, join(<<LF>>, stdout_lines), S_timed_out, FALSE,
                                  ex_operation),
                    None, <<>>)
    /\ ex_pc' = "finally"
    /\ UNCHANGED <<_process, stdout_lines, ex_exit_code, ex_raised, ex_result,
                   ex_spawn_failed, threadVars, clockVars, ch_state, ch_out_open,
                   ch_err_open, ch_out_buf, ch_err_buf, ch_budget, ch_code,
                   cancelVars, ex_callback, ch_sent, notExec>>

\* A finally clause that leaves the reference as it is
process_kept(process) == process

\* _execute: "finally: self._process = None"
process_after_finally(process) == 0

\* The finally clause, then what was pending: the exception leaves _execute,
\* the except clause's result is returned, or the final return statement
\* builds the result from the two lists as they are now
finally_and_leave ==
    /\ ex_pc = "finally"
    /\ _process' = process_after_finally(_process)
    /\ IF ex_pending.kind = "raise"
       THEN /\ ex_raised' = ex_pending.exc
            /\ ex_pc' = "raised"
            /\ UNCHANGED ex_result
       ELSE /\ ex_result' =
                IF ex_pending.kind = "normal"
                THEN CommandResult(ex_exit_code, join(<<LF>>, stdout_lines),
                                   join(<<LF>>, stderr_lines), ex_exit_code = 0,
                                   ex_operation)
                ELSE ex_pending.result
            /\ ex_pc' = "returned"
            /\ UNCHANGED ex_raised
    /\ UNCHANGED <<stdout_lines, ex_exit_code, ex_pending, ex_spawn_failed,
                   threadVars, clockVars, childVars, cancelVars, ex_callback,
                   ch_sent, notExec>>

\* _OperationWorker.run: except Exception as exc
run_except ==
    /\ ex_pc = "raised"
    /\ ex_result' = CommandResult(1, <<>>, ex_pending.msg, FALSE, ex_operation)
    /\ ex_pc' = "returned"
    /\ UNCHANGED <<_process, stdout_lines, ex_exit_code, ex_pending, ex_raised,
                   ex_spawn_failed, threadVars, clockVars, childVars, cancelVars,
                   ex_callback, ch_sent, notExec>>

\* _OperationWorker.run: self.finished.emit(result)
run_emit_finished ==
    /\ ex_pc = "returned"
    /\ ex_pc' = "finished"
    /\ UNCHANGED <<_process, stdout_lines, ex_exit_code, ex_pending, ex_raised,
                   ex_result, ex_spawn_failed, threadVars, clockVars, childVars,
                   cancelVars, ex_callback, ch_sent, notExec>>

WorkerStep ==
    \/ Popen_returns \/ Popen_raises \/ start_stderr_thread
    \/ read_stdout_line \/ stdout_eof \/ join_returns \/ join_times_out
    \/ wait_returns \/ wait_times_out \/ except_TimeoutExpired
    \/ finally_and_leave \/ run_except \/ run_emit_finished

\* ---- the stderr reader thread (_read_stderr)

\* The two assertions at the top of _read_stderr, and the evaluation of
\* self._process.stderr
stderr_thread_begin ==
    /\ th_pc = "started"
    /\ th_pc' = IF _process = 0 THEN "failed" ELSE "reading"
    /\ UNCHANGED <<_process, workerVars, stderr_lines, clockVars, childVars,
                   cancelVars, ex_callback, ch_sent, notExec>>

\* One turn of "for line in self._process.stderr"
read_stderr_line ==
    /\ th_pc = "reading"
    /\ ch_err_buf # <<>>
    /\ LET redacted == redact(sensitive_values, rstrip_newline(Head(ch_err_buf)))
       IN  /\ stderr_lines' = Append(stderr_lines, redacted)
           /\ ex_callback' =
                Append(ex_callback, [stream |-> "stderr", text |-> redacted])
    /\ ch_err_buf' = Tail(ch_err_buf)
    /\ UNCHANGED <<_process, workerVars, th_pc, clockVars, ch_state, ch_out_open,
                   ch_err_open, ch_out_buf, ch_budget, ch_code, ch_signalled,
                   cancelVars, ch_sent, notExec>>

\* The stderr loop ends and the thread with it
stderr_eof ==
    /\ th_pc = "reading"
    /\ ch_err_buf = <<>>
    /\ ~ch_err_open
    /\ th_pc' = "done"
    /\ UNCHANGED <<_process, workerVars, stderr_lines, clockVars, childVars,
                   cancelVars, ex_callback, ch_sent, notExec>>

ThreadStep == stderr_thread_begin \/ read_stderr_line \/ stderr_eof

\* ---- the clock

\* _timeout seconds have passed since the child was started, while _execute
\* is still at work on it
timeout_elapses ==
    /\ ex_pc \in {"spawned", "stdout", "join", "wait"}
    /\ ~ex_elapsed
    /\ ex_elapsed' = TRUE
    /\ ex_late' = (ch_state = "running")
    /\ UNCHANGED <<_process, workerVars, threadVars, childVars, cancelVars,
                   ex_callback, ch_sent, notExec>>

\* ---- the child process

child_writes_stdout ==
    \E line \in ExLines :
        /\ ch_state = "running" /\ ch_out_open /\ ch_budget > 0
        /\ ch_out_buf' = Append(ch_out_buf, line)
        /\ ch_sent' = Append(ch_sent, [stream |-> "stdout", text |-> line])
        /\ ch_budget' = ch_budget - 1
        /\ UNCHANGED <<_process, workerVars, threadVars, clockVars, ch_state,
                       ch_out_open, ch_err_open, ch_err_buf, ch_code, ch_signalled,
                       cancelVars, ex_callback, notExec>>

child_writes_stderr ==
    \E line \in ExLines :
        /\ ch_state = "running" /\ ch_err_open /\ ch_budget > 0
        /\ ch_err_buf' = Append(ch_err_buf, line)
        /\ ch_sent' = Append(ch_sent, [stream |-> "stderr", text |-> line])
        /\ ch_budget' = ch_budget - 1
        /\ UNCHANGED <<_process, workerVars, threadVars, clockVars, ch_state,
                       ch_out_open, ch_err_open, ch_out_buf, ch_code, ch_signalled,
                       cancelVars, ex_callback, notExec>>

\* The child closes its stdout and goes on running
child_closes_stdout ==
    /\ ch_state = "running" /\ ch_out_open
    /\ ch_out_open' = FALSE
    /\ UNCHANGED <<_process, workerVars, threadVars, clockVars, ch_state,
                   ch_err_open, ch_out_buf, ch_err_buf, ch_budget, ch_code,
                   ch_signalled, cancelVars, ex_callback, ch_sent, notExec>>

\* The child closes its stderr and goes on running
child_closes_stderr ==
    /\ ch_state = "running" /\ ch_err_open
    /\ ch_err_open' = FALSE
    /\ UNCHANGED <<_process, workerVars, threadVars, clockVars, ch_state,
                   ch_out_open, ch_out_buf, ch_err_buf, ch_budget, ch_code,
                   ch_signalled, cancelVars, ex_callback, ch_sent, notExec>>

\* The child exits, by itself or killed by the signal of terminate(): both
\* pipes are closed; Popen reports a death by SIGTERM as return code -15
child_exits ==
    \E code \in ExExitCodes \cup (IF ch_signalled THEN {-15} ELSE {}) :
        /\ ch_state = "running"
        /\ ch_state' = "exited"
        /\ ch_code' = code
        /\ ch_out_open' = FALSE
        /\ ch_err_open' = FALSE
        /\ UNCHANGED <<_process, workerVars, threadVars, clockVars, ch_out_buf,
                       ch_err_buf, ch_budget, ch_signalled, cancelVars,
                       ex_callback, ch_sent, notExec>>

\* ---- TerraformRunner.cancel on the UI thread

\* cancel: "if self._process is not None"
cancel_check ==
    /\ ui_pc = "idle"
    /\ ui_raised = None
    /\ ui_cancels < MaxCancels
    /\ ui_cancels' = ui_cancels + 1
    /\ ui_pc' = IF _process # 0 THEN "terminate" ELSE "idle"
    /\ UNCHANGED <<_process, workerVars, threadVars, clockVars, childVars,
                   ui_raised, ex_callback, ch_sent, notExec>>

\* cancel: "self._process.terminate()" reads the attribute again; on None
\* the call raises AttributeError, which "except OSError" does not catch
cancel_terminate ==
    /\ ui_pc = "terminate"
    /\ IF _process = 0
       THEN ui_raised' = "AttributeError" /\ UNCHANGED ch_signalled
       ELSE terminate /\ UNCHANGED ui_raised
    /\ ui_pc' = "idle"
    /\ UNCHANGED <<_process, workerVars, threadVars, clockVars, ch_state,
                   ch_out_open, ch_err_open, ch_out_buf, ch_err_buf, ch_budget,
                   ch_code, ui_cancels, ex_callback, ch_sent, notExec>>

ExecNext ==
    \/ run_call
    \/ Popen_returns \/ Popen_raises \/ start_stderr_thread
    \/ read_stdout_line \/ stdout_eof \/ join_returns \/ join_times_out
    \/ wait_returns \/ wait_times_out \/ except_TimeoutExpired
    \/ finally_and_leave \/ run_except \/ run_emit_finished
    \/ stderr_thread_begin \/ read_stderr_line \/ stderr_eof
    \/ timeout_elapses
    \/ child_writes_stdout \/ child_writes_stderr \/ child_closes_stdout
    \/ child_closes_stderr \/ child_exits
    \/ cancel_check \/ cancel_terminate

(***************************************************************************)
(* MainWindow (ui/main_window.py): the operation buttons, the confirmation *)
(* dialogs, one worker in a QThread, and the events Qt queues to the UI    *)
(* thread.  The worker's execution is followed from one call of the        *)
(* output callback or of Popen to the next.                                *)
(***************************************************************************)

\* output_viewer.py:58
MAX_LINES == 10000

\* ---- bounds of a session
MaxOps == 2
MaxLoads == 2
MaxGuiLines == 1

\* The variable names a project declares, the texts typed into the field of
\* its sensitive variable, and the lines a child writes
GuiNames == {<<"a">>, <<"a", ".">>}
GuiValues == {<<"s">>, <<>>}
GuiLines == {[stream |-> "stdout", text |-> <<"o", LF>>],
             [stream |-> "stdout", text |-> <<"s", LF>>],
             [stream |-> "stderr", text |-> <<"s", LF>>]}
GuiExitCodes == {0, 1}

Buttons == {"init", "validate", "plan", "apply", "destroy", "cancel"}

\* The runner _load_project creates (main_window.py:604-611)
GuiRunner == [terraform_binary |-> <<"t", "f">>, project_path |-> <<"/", "h">>]

NoWorker ==
    [runner |-> 0, operation |-> "none", variables |-> <<>>, var_types |-> <<>>,
     auto_approve |-> FALSE, accepted |-> "none", setting |-> FALSE]

\* The command last handed to Popen, with how its request was confirmed
NoSpawn == [argv |-> <<>>, operation |-> "none", accepted |-> "none",
            setting |-> FALSE]

\* The events queued to the UI thread
LineEvent(text) == [type |-> "line", text |-> text, result |-> NoResult]
StoreEvent(result) == [type |-> "store", text |-> <<>>, result |-> result]
QuitEvent == [type |-> "quit", text |-> <<>>, result |-> NoResult]
FinishedEvent == [type |-> "thread_finished", text |-> <<>>, result |-> NoResult]

\* MainWindow._update_button_states, as the enabled flag of each button
_update_button_states(running, has_project, init_done) ==
    [b \in Buttons |->
        CASE b = "init" -> has_project /\ ~running
          [] b = "cancel" -> running
          [] OTHER -> has_project /\ init_done /\ ~running]

\* QThread.isRunning() of self._worker_thread
isRunning(thread, running_threads) == thread # 0 /\ thread \in running_threads

\* OutputViewer.append_output on a text without ANSI escapes
append_output(lines, text) ==
    IF Len(lines) >= MAX_LINES THEN lines ELSE Append(lines, text)

\* OutputViewer.get_text
get_text(lines) == join(<<LF>>, lines)

\* str.lower on the type a variable declares
type_lower(type) ==
    CASE type = "String" -> "string"
      [] type = "Bool" -> "bool"
      [] type = "Number" -> "number"
      [] OTHER -> type

\* VariableInputWidget.get_value of the sensitive variable's line edit
get_value(text) == strip(text)

\* VariablesPanel.all_valid: the variable has no default, so it is required
all_valid(text, type) ==
    /\ get_value(text) # <<>>
    /\ sanitize_variable_value(PyStr(get_value(text)), type_lower(type)).ok

\* VariablesPanel.get_all_values
get_all_values(name, text) ==
    IF get_value(text) # <<>>
    THEN <<[name |-> name, value |-> PyStr(get_value(text))]>>
    ELSE <<>>

\* VariablesPanel.get_var_types
get_var_types(name, type) == name :> type

\* The condition under which a click handler goes on after dialog.exec()
dialog_passed_always(code) == TRUE

dialog_passed(code) == code = "Accepted"

GuiInit ==
    /\ confirmations = [apply |-> TRUE, destroy |-> TRUE]
    /\ current_project_path = 0
    /\ terraform_runner = 0
    /\ _init_done = FALSE
    /\ _worker = NoWorker
    /\ _worker_thread = 0
    /\ _pending_result = NoResult
    /\ enabled = _update_button_states(FALSE, FALSE, FALSE)
    /\ viewer = <<>>
    /\ dialog = "none"
    /\ panel_name = <<>>
    /\ panel_value = <<>>
    /\ qthreads = {}
    /\ quit_requested = FALSE
    /\ ui_queue = <<>>
    /\ wk_pc = "none"
    /\ wk_stdout = <<>>
    /\ wk_stderr = <<>>
    /\ wk_budget = 0
    /\ wk_signalled = FALSE
    /\ orphans = 0
    /\ gui_spawned = NoSpawn
    /\ op_secret = <<>>
    /\ gui_ops = 0
    /\ gui_loads = 0

\* MainWindow._run_operation; accepted is the operation of the confirmation
\* dialog the user accepted for this request, or "none"
_run_operation(operation, accepted) ==
    IF terraform_runner = 0 \/ _worker_thread # 0
    THEN UNCHANGED <<viewer, _worker, _worker_thread, _pending_result, enabled,
                     qthreads, wk_pc, gui_ops, op_secret>>
    ELSE IF operation \in {"plan", "apply", "destroy"}
            /\ ~all_valid(panel_value, "string")
    THEN /\ viewer' = <<>>
         /\ UNCHANGED <<_worker, _worker_thread, _pending_result, enabled,
                        qthreads, wk_pc, gui_ops, op_secret>>
    ELSE LET with_variables == operation \in {"plan", "apply", "destroy"}
             thread == gui_ops + 1
         IN  /\ viewer' = <<>>
             /\ _worker' =
                    [runner |-> terraform_runner,
                     operation |-> operation,
                     variables |-> IF with_variables
                                   THEN get_all_values(panel_name, panel_value)
                                   ELSE <<>>,
                     var_types |-> IF with_variables
                                   THEN get_var_types(panel_name, "string")
                                   ELSE <<>>,
                     auto_approve |-> operation \in {"apply", "destroy"},
                     accepted |-> accepted,
                     setting |-> IF operation \in {"apply", "destroy"}
                                 THEN confirmations[operation] ELSE FALSE]
             /\ _worker_thread' = thread
             /\ _pending_result' = NoResult
             /\ enabled' = _update_button_states(
                              isRunning(thread, qthreads),
                              current_project_path # 0, _init_done)
             /\ qthreads' = qthreads \cup {thread}
             /\ wk_pc' = "start"
             /\ gui_ops' = gui_ops + 1
             /\ op_secret' = get_value(panel_value)

\* ---- the user

\* MainWindow._load_project on a directory that holds a Terraform project
load_project ==
    /\ dialog = "none"
    /\ gui_loads < MaxLoads
    /\ \E name \in GuiNames, initialized \in BOOLEAN :
        /\ _init_done' = initialized
        /\ panel_name' = name
        /\ enabled' = _update_button_states(isRunning(_worker_thread, qthreads),
                                            TRUE, initialized)
    /\ current_project_path' = 1
    /\ terraform_runner' = gui_loads + 1
    /\ panel_value' = <<>>
    /\ gui_loads' = gui_loads + 1
    /\ UNCHANGED <<confirmations, _worker, _worker_thread, _pending_result,
                   viewer, dialog, qthreads, quit_requested, ui_queue, wk_pc,
                   wk_stdout, wk_stderr, wk_budget, wk_signalled, orphans,
                   gui_spawned, op_secret, gui_ops, notGui>>

\* The user edits the field of the sensitive variable
type_value ==
    /\ dialog = "none"
    /\ current_project_path # 0
    /\ \E text \in GuiValues : text # panel_value /\ panel_value' = text
    /\ UNCHANGED <<confirmations, current_project_path, terraform_runner,
                   _init_done, _worker, _worker_thread, _pending_result,
                   enabled, viewer, dialog, panel_name, qthreads,
                   quit_requested, ui_queue, wk_pc, wk_stdout, wk_stderr,
                   wk_budget, wk_signalled, orphans, gui_spawned, op_secret,
                   gui_ops, gui_loads, notGui>>

\* SettingsDialog._on_save from MainWindow._on_preferences
preferences_save ==
    /\ dialog = "none"
    /\ \E a, d \in BOOLEAN :
        /\ confirmations' = [apply |-> a, destroy |-> d]
        /\ confirmations' # confirmations
    /\ UNCHANGED <<current_project_path, terraform_runner, _init_done,
                   _worker, _worker_thread, _pending_result, enabled, viewer,
                   dialog, panel_name, panel_value, qthreads, quit_requested,
                   ui_queue, wk_pc, wk_stdout, wk_stderr, wk_budget,
                   wk_signalled, orphans, gui_spawned, op_secret, gui_ops,
                   gui_loads, notGui>>

\* init_button.clicked: self._run_operation("init")
init_clicked ==
    /\ dialog = "none"
    /\ enabled["init"]
    /\ gui_ops < MaxOps
    /\ _run_operation("init", "none")
    /\ UNCHANGED <<confirmations, current_project_path, terraform_runner,
                   _init_done, dialog, panel_name, panel_value,
                   quit_requested, ui_queue, wk_stdout, wk_stderr, wk_budget,
                   wk_signalled, orphans, gui_spawned, gui_loads, notGui>>

\* validate_button.clicked: self._run_operation("validate")
validate_clicked ==
    /\ dialog = "none"
    /\ enabled["validate"]
    /\ gui_ops < MaxOps
    /\ _run_operation("validate", "none")
    /\ UNCHANGED <<confirmations, current_project_path, terraform_runner,
                   _init_done, dialog, panel_name, panel_value,
                   quit_requested, ui_queue, wk_stdout, wk_stderr, wk_budget,
                   wk_signalled, orphans, gui_spawned, gui_loads, notGui>>

\* plan_button.clicked: self._run_operation("plan")
plan_clicked ==
    /\ dialog = "none"
    /\ enabled["plan"]
    /\ gui_ops < MaxOps
    /\ _run_operation("plan", "none")
    /\ UNCHANGED <<confirmations, current_project_path, terraform_runner,
                   _init_done, dialog, panel_name, panel_value,
                   quit_requested, ui_queue, wk_stdout, wk_stderr, wk_budget,
                   wk_signalled, orphans, gui_spawned, gui_loads, notGui>>

\* The part of _on_apply_clicked and _on_destroy_clicked before dialog.exec()
\* returns: with the confirmation switched off the operation is requested

_on_confirmed_clicked(operation) ==
    /\ dialog = "none"
    /\ enabled[operation]
    /\ gui_ops < MaxOps
    /\ IF confirmations[operation]
       THEN /\ dialog' = operation
            /\ UNCHANGED <<viewer, _worker, _worker_thread, _pending_result,
                           enabled, qthreads, wk_pc, gui_ops, op_secret>>
       ELSE /\ _run_operation(operation, "none")
            /\ UNCHANGED dialog
    /\ UNCHANGED <<confirmations, current_project_path, terraform_runner,
                   _init_done, panel_name, panel_value, quit_requested,
                   ui_queue, wk_stdout, wk_stderr, wk_budget, wk_signalled,
                   orphans, gui_spawned, gui_loads, notGui>>

\* MainWindow._on_apply_clicked
_on_apply_clicked == _on_confirmed_clicked("apply")

\* MainWindow._on_destroy_clicked
_on_destroy_clicked == _on_confirmed_clicked("destroy")

\* dialog.exec() returns in _on_apply_clicked or _on_destroy_clicked
confirm_dialog_returns ==
    /\ dialog # "none"
    /\ dialog' = "none"
    /\ \E code \in {"Accepted", "Rejected"} :
        IF dialog_passed(code)
        THEN _run_operation(dialog, IF code = "Accepted" THEN dialog ELSE "none")
        ELSE UNCHANGED <<viewer, _worker, _worker_thread, _pending_result,
                         enabled, qthreads, wk_pc, gui_ops, op_secret>>
    /\ UNCHANGED <<confirmations, current_project_path, terraform_runner,
                   _init_done, panel_name, panel_value, quit_requested,
                   ui_queue, wk_stdout, wk_stderr, wk_budget, wk_signalled,
                   orphans, gui_spawned, gui_loads, notGui>>

\* MainWindow._on_cancel: cancel() of the runner the window holds now; the
\* runner at work has _process set while its child runs
_on_cancel ==
    /\ dialog = "none"
    /\ enabled["cancel"]
    /\ wk_signalled' =
        (\/ wk_signalled
         \/ terraform_runner # 0 /\ wk_pc = "child"
            /\ _worker.runner = terraform_runner)
    /\ UNCHANGED <<confirmations, current_project_path, terraform_runner,
                   _init_done, _worker, _worker_thread, _pending_result,
                   enabled, viewer, dialog, panel_name, panel_value, qthreads,
                   quit_requested, ui_queue, wk_pc, wk_stdout, wk_stderr,
                   wk_budget, orphans, gui_spawned, op_secret, gui_ops,
                   gui_loads, notGui>>

\* ---- the worker thread

\* What the runner operation of the worker assembles
worker_command(worker) ==
    CASE worker.operation = "init" -> init(GuiRunner, <<>>)
      [] worker.operation = "validate" -> validate(GuiRunner)
      [] worker.operation = "plan" ->
            plan(GuiRunner, worker.variables, worker.var_types, PyNone)
      [] worker.operation = "apply" ->
            apply(GuiRunner, worker.variables, worker.var_types, worker.auto_approve)
      [] worker.operation = "destroy" ->
            destroy(GuiRunner, worker.variables, worker.var_types,
                    worker.auto_approve)

\* self.finished.emit(result): _store_result and thread.quit are queued
emit_finished(result) ==
    ui_queue' = ui_queue \o <<StoreEvent(result), QuitEvent>>

\* _OperationWorker.run: the operation raises SecurityError before _execute
worker_rejected ==
    /\ wk_pc = "start"
    /\ ~worker_command(_worker).ok
    /\ emit_finished(CommandResult(1, <<>>, worker_command(_worker).msg, FALSE,
                                   _worker.operation))
    /\ wk_pc' = "emitted"
    /\ UNCHANGED <<confirmations, current_project_path, terraform_runner,
                   _init_done, _worker, _worker_thread, _pending_result,
                   enabled, viewer, dialog, panel_name, panel_value, qthreads,
                   quit_requested, wk_stdout, wk_stderr, wk_budget,
                   wk_signalled, orphans, gui_spawned, op_secret, gui_ops,
                   gui_loads, notGui>>

\* _OperationWorker.run: Popen raises OSError in _execute
worker_spawn_fails ==
    /\ wk_pc = "start"
    /\ worker_command(_worker).ok
    /\ emit_finished(CommandResult(1, <<>>, M_errno2, FALSE, _worker.operation))
    /\ wk_pc' = "emitted"
    /\ UNCHANGED <<confirmations, current_project_path, terraform_runner,
                   _init_done, _worker, _worker_thread, _pending_result,
                   enabled, viewer, dialog, panel_name, panel_value, qthreads,
                   quit_requested, wk_stdout, wk_stderr, wk_budget,
                   wk_signalled, orphans, gui_spawned, op_secret, gui_ops,
                   gui_loads, notGui>>

\* _OperationWorker.run: Popen starts the child in _execute
worker_spawns ==
    /\ wk_pc = "start"
    /\ worker_command(_worker).ok
    /\ gui_spawned' = [argv |-> worker_command(_worker).value,
                       operation |-> _worker.operation,
                       accepted |-> _worker.accepted,
                       setting |-> _worker.setting]
    /\ wk_stdout' = <<>>
    /\ wk_stderr' = <<>>
    /\ wk_budget' = MaxGuiLines
    /\ wk_signalled' = FALSE
    /\ wk_pc' = "child"
    /\ UNCHANGED <<confirmations, current_project_path, terraform_runner,
                   _init_done, _worker, _worker_thread, _pending_result,
                   enabled, viewer, dialog, panel_name, panel_value, qthreads,
                   quit_requested, ui_queue, orphans, op_secret, gui_ops,
                   gui_loads, notGui>>

\* _execute reads a line of the child: the runner's redactor, which holds
\* no value (terraform_runner.py:50), redacts it and line_output is emitted
worker_streams_line ==
    /\ wk_pc = "child"
    /\ wk_budget > 0
    /\ \E line \in GuiLines :
        LET redacted == redact(<<>>, rstrip_newline(line.text))
        IN  /\ wk_stdout' = IF line.stream = "stdout"
                            THEN Append(wk_stdout, redacted) ELSE wk_stdout
            /\ wk_stderr' = IF line.stream = "stderr"
                            THEN Append(wk_stderr, redacted) ELSE wk_stderr
            /\ ui_queue' = Append(ui_queue, LineEvent(redacted))
    /\ wk_budget' = wk_budget - 1
    /\ UNCHANGED <<confirmations, current_project_path, terraform_runner,
                   _init_done, _worker, _worker_thread, _pending_result,
                   enabled, viewer, dialog, panel_name, panel_value, qthreads,
                   quit_requested, wk_pc, wk_signalled, orphans, gui_spawned,
                   op_secret, gui_ops, gui_loads, notGui>>

\* The child exits and _execute returns its result
worker_child_exits ==
    /\ wk_pc = "child"
    /\ \E code \in GuiExitCodes \cup (IF wk_signalled THEN {-15} ELSE {}) :
        emit_finished(CommandResult(code, join(<<LF>>, wk_stdout),
                                    join(<<LF>>, wk_stderr), code = 0,
                                    _worker.operation))
    /\ wk_pc' = "emitted"
    /\ UNCHANGED <<confirmations, current_project_path, terraform_runner,
                   _init_done, _worker, _worker_thread, _pending_result,
                   enabled, viewer, dialog, panel_name, panel_value, qthreads,
                   quit_requested, wk_stdout, wk_stderr, wk_budget,
                   wk_signalled, orphans, gui_spawned, op_secret, gui_ops,
                   gui_loads, notGui>>

\* wait() raises TimeoutExpired: _execute signals the child with
\* terminate() and returns without waiting for its end
worker_times_out ==
    /\ wk_pc = "child"
    /\ emit_finished(CommandResult(-1, join(<<LF>>, wk_stdout), S_timed_out, FALSE,
                                   _worker.operation))
    /\ orphans' = orphans + 1
    /\ wk_pc' = "emitted"
    /\ UNCHANGED <<confirmations, current_project_path, terraform_runner,
                   _init_done, _worker, _worker_thread, _pending_result,
                   enabled, viewer, dialog, panel_name, panel_value, qthreads,
                   quit_requested, wk_stdout, wk_stderr, wk_budget,
                   wk_signalled, gui_spawned, op_secret, gui_ops, gui_loads,
                   notGui>>

\* A child signalled by the except clause exits
orphan_exits ==
    /\ orphans > 0
    /\ orphans' = orphans - 1
    /\ UNCHANGED <<confirmations, current_project_path, terraform_runner,
                   _init_done, _worker, _worker_thread, _pending_result,
                   enabled, viewer, dialog, panel_name, panel_value, qthreads,
                   quit_requested, ui_queue, wk_pc, wk_stdout, wk_stderr,
                   wk_budget, wk_signalled, gui_spawned, op_secret, gui_ops,
                   gui_loads, notGui>>

\* The QThread leaves its event loop after quit(): finished is emitted
thread_finishes ==
    /\ wk_pc = "emitted"
    /\ quit_requested
    /\ qthreads' = qthreads \ {_worker_thread}
    /\ quit_requested' = FALSE
    /\ ui_queue' = Append(ui_queue, FinishedEvent)
    /\ wk_pc' = "none"
    /\ UNCHANGED <<confirmations, current_project_path, terraform_runner,
                   _init_done, _worker, _worker_thread, _pending_result,
                   enabled, viewer, dialog, panel_name, panel_value,
                   wk_stdout, wk_stderr, wk_budget, wk_signalled, orphans,
                   gui_spawned, op_secret, gui_ops, gui_loads, notGui>>

\* ---- the UI thread's event loop

\* _relay_output delivers a line to output_viewer.append_output
_relay_output ==
    /\ ui_queue # <<>>
    /\ Head(ui_queue).type = "line"
    /\ viewer' = append_output(viewer, Head(ui_queue).text)
    /\ ui_queue' = Tail(ui_queue)
    /\ UNCHANGED <<confirmations, current_project_path, terraform_runner,
                   _init_done, _worker, _worker_thread, _pending_result,
                   enabled, dialog, panel_name, panel_value, qthreads,
                   quit_requested, wk_pc, wk_stdout, wk_stderr, wk_budget,
                   wk_signalled, orphans, gui_spawned, op_secret, gui_ops,
                   gui_loads, notGui>>

\* MainWindow._store_result
_store_result ==
    /\ ui_queue # <<>>
    /\ Head(ui_queue).type = "store"
    /\ _pending_result' = Head(ui_queue).result
    /\ ui_queue' = Tail(ui_queue)
    /\ UNCHANGED <<confirmations, current_project_path, terraform_runner,
                   _init_done, _worker, _worker_thread, enabled, viewer,
                   dialog, panel_name, panel_value, qthreads, quit_requested,
                   wk_pc, wk_stdout, wk_stderr, wk_budget, wk_signalled,
                   orphans, gui_spawned, op_secret, gui_ops, gui_loads,
                   notGui>>

\* QThread.quit
thread_quit ==
    /\ ui_queue # <<>>
    /\ Head(ui_queue).type = "quit"
    /\ quit_requested' = TRUE
    /\ ui_queue' = Tail(ui_queue)
    /\ UNCHANGED <<confirmations, current_project_path, terraform_runner,
                   _init_done, _worker, _worker_thread, _pending_result,
                   enabled, viewer, dialog, panel_name, panel_value, qthreads,
                   wk_pc, wk_stdout, wk_stderr, wk_budget, wk_signalled,
                   orphans, gui_spawned, op_secret, gui_ops, gui_loads,
                   notGui>>

\* MainWindow._on_operation_finished
_on_operation_finished(result) ==
    /\ _init_done' = (_init_done \/ (result.success /\ result.command = "init"))
    /\ viewer' = IF ~result.success /\ result.stderr # <<>>
                    /\ ~Contains(get_text(viewer), result.stderr)
                 THEN append_output(viewer, result.stderr)
                 ELSE viewer
    /\ enabled' = _update_button_states(isRunning(_worker_thread', qthreads),
                                        current_project_path # 0, _init_done')

\* MainWindow._on_thread_finished
_on_thread_finished ==
    /\ ui_queue # <<>>
    /\ Head(ui_queue).type = "thread_finished"
    /\ ui_queue' = Tail(ui_queue)
    /\ _pending_result' = NoResult
    /\ _worker' = NoWorker
    /\ _worker_thread' = 0
    /\ IF _pending_result # NoResult
       THEN _on_operation_finished(_pending_result)
       ELSE UNCHANGED <<_init_done, viewer, enabled>>
    /\ UNCHANGED <<confirmations, current_project_path, terraform_runner,
                   dialog, panel_name, panel_value, qthreads, quit_requested,
                   wk_pc, wk_stdout, wk_stderr, wk_budget, wk_signalled,
                   orphans, gui_spawned, op_secret, gui_ops, gui_loads,
                   notGui>>

GuiNext ==
    \/ load_project \/ type_value \/ preferences_save
    \/ init_clicked \/ validate_clicked \/ plan_clicked
    \/ _on_apply_clicked \/ _on_destroy_clicked \/ confirm_dialog_returns
    \/ _on_cancel
    \/ worker_rejected \/ worker_spawn_fails \/ worker_spawns
    \/ worker_streams_line \/ worker_child_exits \/ worker_times_out
    \/ orphan_exits \/ thread_finishes
    \/ _relay_output \/ _store_result \/ thread_quit \/ _on_thread_finished

(***************************************************************************)
(* One call of a function of InputSanitizer (security/sanitizer.py)        *)
(***************************************************************************)

\* ---- bounds of the arguments
MaxSanLen == 2

SanNameAlphabet == {"a", "Z", "_", "-", "1", ".", LF}
SanValueAlphabet == {"a", " ", ";", "|", "&", "$", BACKTICK, "\"", "\\", LF, CR}

\* n times the character c
Repeat(c, n) == [i \in 1..n |-> c]

\* Variable names: the short ones and those at the length limit
SanVariableNames ==
    StringsUpTo(SanNameAlphabet, MaxSanLen)
        \cup {Repeat("a", MAX_VARIABLE_NAME_LENGTH),
              Repeat("a", MAX_VARIABLE_NAME_LENGTH + 1),
              Repeat("a", MAX_VARIABLE_NAME_LENGTH - 1) \o <<LF>>}

SanWorkspaceNames ==
    StringsUpTo(SanNameAlphabet, MaxSanLen)
        \cup {Repeat("a", MAX_WORKSPACE_NAME_LENGTH),
              Repeat("a", MAX_WORKSPACE_NAME_LENGTH + 1),
              Repeat("a", MAX_WORKSPACE_NAME_LENGTH - 1) \o <<LF>>}

\* Values given with the type hint "string"
SanStrings ==
    StringsUpTo(SanValueAlphabet, MaxSanLen)
        \cup {Repeat("a", MAX_VARIABLE_VALUE_LENGTH),
              Repeat("a", MAX_VARIABLE_VALUE_LENGTH + 1),
              Repeat("a", MAX_VARIABLE_VALUE_LENGTH - 1) \o <<";">>}

\* Values given with any type hint: texts, booleans, None and lists of str
SanTexts ==
    {S_true, S_True, S_false, <<"1">>, <<"0">>, <<"y">>, <<"1", ".", "5">>,
     <<"1", "e", "5">>, <<"a", "b">>, <<"[", "1", "]">>, <<"[", "1", ",", "2", "]">>,
     <<"[">>, <<"\"", "a", "\"">>, Repeat("1", MAX_VARIABLE_VALUE_LENGTH + 1)}
SanValues ==
    {PyStr(s) : s \in SanTexts}
        \cup {PyBool(TRUE), PyBool(FALSE), PyNone, PyList(<<>>),
              PyList(<< <<"a">> >>), PyList(<< <<"a">>, <<"b", "'">> >>),
              PyList(<< Repeat("\"", MAX_VARIABLE_VALUE_LENGTH - 6) >>)}
SanTypes == {"string", "bool", "number", "list", "map", "object"}

SanPaths ==
    {<<>>, <<"~">>, <<"~", "/", "p">>, home_dir, home_dir \o <<"/", "p">>,
     home_dir \o <<"/", "f">>, home_dir \o <<"/", "l">>, home_dir \o <<"-", "o">>,
     home_dir \o <<"/", ".", ".", "/", "e">>, <<"/", "e">>, <<"/", "e", "/", "l">>,
     <<"/", "x">>, <<"/">>, S_opt_terraform, S_opt_terraform \o <<"2">>,
     S_tmp_terraform \o <<"/", "w">>, <<"/", "t", "m", "p">>}

SanCall(fn, arg, type) == [fn |-> fn, arg |-> arg, type |-> type]
NoSanCall == SanCall("none", PyNone, "string")

SanCalls ==
    {SanCall("sanitize_variable_name", PyStr(s), "string") : s \in SanVariableNames}
    \cup {SanCall("sanitize_workspace_name", PyStr(s), "string") :
            s \in SanWorkspaceNames}
    \cup {SanCall("sanitize_variable_value", PyStr(s), "string") : s \in SanStrings}
    \cup {SanCall("sanitize_variable_value", v, t) : v \in SanValues, t \in SanTypes}
    \cup {SanCall("sanitize_path", PyStr(s), "string") : s \in SanPaths}

\* No call in progress
SanIdle ==
    /\ san_call = NoSanCall
    /\ san_phase = "ready"
    /\ san_result = Returned(<<>>)

\* A caller is about to call one of the functions
SanInit ==
    /\ san_call \in SanCalls
    /\ san_phase = "ready"
    /\ san_result = Returned(<<>>)

SanFinish(result) ==
    /\ san_result' = result
    /\ san_phase' = "done"
    /\ UNCHANGED <<san_call, notSan>>

SanReady(fn) == san_phase = "ready" /\ san_call.fn = fn

SanitizeVariableName ==
    /\ SanReady("sanitize_variable_name")
    /\ SanFinish(sanitize_variable_name(san_call.arg.s))

SanitizeVariableValue ==
    /\ SanReady("sanitize_variable_value")
    /\ SanFinish(sanitize_variable_value(san_call.arg, san_call.type))

SanitizeWorkspaceName ==
    /\ SanReady("sanitize_workspace_name")
    /\ SanFinish(sanitize_workspace_name(san_call.arg.s))

SanitizePath ==
    /\ SanReady("sanitize_path")
    /\ SanFinish(sanitize_path(san_call.arg.s))

SanNext ==
    \/ SanitizeVariableName \/ SanitizeVariableValue
    \/ SanitizeWorkspaceName \/ SanitizePath

(***************************************************************************)
(* SecureString (security/secure_memory.py)                                *)
(***************************************************************************)

MaxSecureCalls == 3
MaxSecureLen == 2

M_secure_cleared ==
    <<"S", "e", "c", "u", "r", "e", "S", "t", "r", "i", "n", "g", " ", "v", "a",
      "l", "u", "e", " ", "h", "a", "s", " ", "b", "e", "e", "n", " ", "c", "l",
      "e", "a", "r", "e", "d">>

\* SecureString.__init__
SecureString(value) == [_value |-> PyStr(value), _cleared |-> FALSE]

\* SecureString.__str__
SecureString_str(self) == Returned(PyStr(REDACTED))

\* SecureString.__repr__
SecureString_repr(self) ==
    Returned(PyStr(<<"S", "e", "c", "u", "r", "e", "S", "t", "r", "i", "n", "g", "(">>
                   \o REDACTED \o <<")">>))

\* SecureString.get_value
SecureString_get_value(self) ==
    IF self._cleared \/ self._value = PyNone
    THEN Raised("ValueError", M_secure_cleared)
    ELSE Returned(self._value)

\* A clear() that leaves the object as it is
SecureString_clear_keeping(self) == self

\* SecureString.clear: the object after the call.  The value is overwritten
\* with NULs of the same length and then, in the finally block, dropped
SecureString_clear(self) ==
    IF ~self._cleared /\ self._value # PyNone
    THEN LET overwritten == [self EXCEPT !._value = PyStr(Repeat(NUL, Len(self._value.s)))]
         IN  [overwritten EXCEPT !._value = PyNone, !._cleared = TRUE]
    ELSE self

\* SecureString.is_cleared
SecureString_is_cleared(self) == Returned(PyBool(self._cleared))

SecureValues == StringsUpTo({"a", NUL}, MaxSecureLen)

SecIdle ==
    /\ ss_self = SecureString(<<>>)
    /\ ss_wrapped = <<>>
    /\ ss_op = None
    /\ ss_last = Returned(PyNone)
    /\ ss_clear_ran = FALSE
    /\ ss_calls = 0

\* A freshly constructed SecureString
SecInit ==
    /\ ss_wrapped \in SecureValues
    /\ ss_self = SecureString(ss_wrapped)
    /\ ss_op = None
    /\ ss_last = Returned(PyNone)
    /\ ss_clear_ran = FALSE
    /\ ss_calls = 0

SecCall(op) ==
    /\ ss_calls < MaxSecureCalls
    /\ ss_calls' = ss_calls + 1
    /\ ss_op' = op
    /\ UNCHANGED <<ss_wrapped, notSec>>

\* str(obj)
SecStr ==
    /\ SecCall("__str__")
    /\ ss_last' = SecureString_str(ss_self)
    /\ UNCHANGED <<ss_self, ss_clear_ran>>

\* repr(obj)
SecRepr ==
    /\ SecCall("__repr__")
    /\ ss_last' = SecureString_repr(ss_self)
    /\ UNCHANGED <<ss_self, ss_clear_ran>>

\* obj.get_value()
SecGetValue ==
    /\ SecCall("get_value")
    /\ ss_last' = SecureString_get_value(ss_self)
    /\ UNCHANGED <<ss_self, ss_clear_ran>>

\* obj.clear()
SecClear ==
    /\ SecCall("clear")
    /\ ss_self' = SecureString_clear(ss_self)
    /\ ss_last' = Returned(PyNone)
    /\ ss_clear_ran' = TRUE

\* The end of a with block: __exit__ calls clear() and returns False
SecExit ==
    /\ SecCall("__exit__")
    /\ ss_self' = SecureString_clear(ss_self)
    /\ ss_last' = Returned(PyBool(FALSE))
    /\ ss_clear_ran' = TRUE

\* obj.is_cleared()
SecIsCleared ==
    /\ SecCall("is_cleared")
    /\ ss_last' = SecureString_is_cleared(ss_self)
    /\ UNCHANGED <<ss_self, ss_clear_ran>>

SecNext ==
    \/ SecStr
    \/ SecRepr
    \/ SecGetValue
    \/ SecClear
    \/ SecExit
    \/ SecIsCleared

(***************************************************************************)
(* Parsing of command output (core/workspace_manager.py,                   *)
(* core/state_manager.py) and writing of files (core/tfvars_handler.py)    *)
(***************************************************************************)

MaxOutLines == 3

\* Python: the characters at which str.splitlines() breaks
LineBreaks == {LF, CR, "\f"}

\* Python: s.splitlines()
RECURSIVE splitlines(_)
splitlines(s) ==
    LET brk == {i \in 1..Len(s) : s[i] \in LineBreaks}
    IN  IF s = <<>> THEN <<>>
        ELSE IF brk = {} THEN <<s>>
        ELSE LET i == CHOOSE k \in brk : \A j \in brk : k <= j
                 skip == IF s[i] = CR /\ i < Len(s) /\ s[i + 1] = LF THEN 2 ELSE 1
             IN  <<SubSeq(s, 1, i - 1)>> \o splitlines(SubSeq(s, i + skip, Len(s)))

\* What _run returns as (code, stdout): the child's exit code and output, or
\* (-1, "") when subprocess.run timed out or raised OSError
inspector_ran(kind, code, stdout) ==
    IF kind = "exit" THEN [code |-> code, stdout |-> stdout]
    ELSE [code |-> -1, stdout |-> <<>>]

S_default == <<"d", "e", "f", "a", "u", "l", "t">>

WorkspaceInfo(name, is_current) == [name |-> name, is_current |-> is_current]

\* The entry of a line that is never the current workspace
workspace_of_line_not_current(line) == WorkspaceInfo(line, FALSE)

\* list_workspaces: the entry appended for a stripped, non-empty line
workspace_of_line(line) ==
    IF StartsWith(line, <<"*", " ">>)
    THEN WorkspaceInfo(strip(SubSeq(line, 3, Len(line))), TRUE)
    ELSE WorkspaceInfo(line, FALSE)

RECURSIVE workspaces_of_lines(_)
workspaces_of_lines(lines) ==
    IF lines = <<>> THEN <<>>
    ELSE LET line == strip(Head(lines))
         IN  (IF line = <<>> THEN <<>> ELSE <<workspace_of_line(line)>>)
             \o workspaces_of_lines(Tail(lines))

\* WorkspaceManager.list_workspaces, given what _run returned
list_workspaces(ran) ==
    IF ran.code # 0 THEN <<WorkspaceInfo(S_default, TRUE)>>
    ELSE LET workspaces == workspaces_of_lines(splitlines(ran.stdout))
         IN  IF workspaces # <<>> THEN workspaces
             ELSE <<WorkspaceInfo(S_default, TRUE)>>

\* The lines a child may write, without their line ends
WsLineTexts == {<<>>, <<" ">>, <<"a">>, <<"*", " ", "a">>, <<" ", "*", " ", " ", "b", "\t">>,
                <<"*">>, <<"*", "a">>, <<"b", " ", "c", " ">>}
LineEnds == {<<LF>>, <<CR, LF>>}
RunKinds == {"exit", "timeout", "oserror"}

\* The output of a child that wrote the lines, each but perhaps the last
\* followed by the line end
RECURSIVE written(_, _, _)
written(lines, end, last_ended) ==
    IF lines = <<>> THEN <<>>
    ELSE IF Len(lines) = 1 THEN Head(lines) \o (IF last_ended THEN end ELSE <<>>)
    ELSE Head(lines) \o end \o written(Tail(lines), end, last_ended)

NoTxtCall == [fn |-> None]

TxtIdle ==
    /\ txt_call = NoTxtCall
    /\ txt_phase = "ready"
    /\ txt_result = <<>>

TxtReady ==
    /\ txt_phase = "ready"
    /\ txt_phase' = "done"
    /\ UNCHANGED notTxt

\* manager.list_workspaces() over a child that wrote some lines
ListWorkspaces ==
    /\ TxtReady
    /\ \E kind \in RunKinds, code \in {0, 1}, lines \in SeqsUpTo(WsLineTexts, MaxOutLines),
          end \in LineEnds, last_ended \in BOOLEAN :
          /\ kind # "exit" => code = 1 /\ lines = <<>> /\ end = <<LF>> /\ last_ended
          /\ txt_call' = [fn |-> "list_workspaces", kind |-> kind, code |-> code,
                          lines |-> lines]
          /\ txt_result' = list_workspaces(inspector_ran(kind, code,
                                              written(lines, end, last_ended)))

\* Python: s.split(sep) for a one-character sep
RECURSIVE split(_, _)
split(s, sep) ==
    LET at == {i \in 1..Len(s) : s[i] = sep}
    IN  IF at = {} THEN <<s>>
        ELSE LET i == CHOOSE k \in at : \A j \in at : k <= j
             IN  <<SubSeq(s, 1, i - 1)>> \o split(SubSeq(s, i + 1, Len(s)), sep)

StateResource(address, type, name) ==
    [address |-> address, type |-> type, name |-> name, provider |-> <<>>]

\* A split that takes the first two segments
_parse_address_from_front(address) ==
    LET parts == split(address, ".")
    IN  IF Len(parts) >= 2 THEN <<parts[1], parts[2]>> ELSE <<address, <<>>>>

\* StateManager._parse_address: (type, name)
_parse_address(address) ==
    LET parts == split(address, ".")
    IN  IF Len(parts) >= 2 THEN <<parts[Len(parts) - 1], parts[Len(parts)]>>
        ELSE <<address, <<>>>>

RECURSIVE resources_of_lines(_)
resources_of_lines(lines) ==
    IF lines = <<>> THEN <<>>
    ELSE LET line == strip(Head(lines))
             parsed == _parse_address(line)
         IN  (IF line = <<>> THEN <<>>
              ELSE <<StateResource(line, parsed[1], parsed[2])>>)
             \o resources_of_lines(Tail(lines))

\* StateManager.list_resources, given what _run returned
list_resources(ran) ==
    IF ran.code # 0 THEN <<>>
    ELSE resources_of_lines(splitlines(ran.stdout))

StLineTexts == {<<>>, <<" ">>, <<"t", ".", "n">>, <<"m", ".", "x", ".", "t", ".", "n">>,
                <<"n">>, <<" ", "t", ".", "n", "\t">>, <<"t", ".">>}

\* manager.list_resources() over a child that wrote some lines
ListResources ==
    /\ TxtReady
    /\ \E kind \in RunKinds, code \in {0, 1}, lines \in SeqsUpTo(StLineTexts, MaxOutLines),
          end \in LineEnds, last_ended \in BOOLEAN :
          /\ kind # "exit" => code = 1 /\ lines = <<>> /\ end = <<LF>> /\ last_ended
          /\ txt_call' = [fn |-> "list_resources", kind |-> kind, code |-> code,
                          lines |-> lines]
          /\ txt_result' = list_resources(inspector_ran(kind, code,
                                             written(lines, end, last_ended)))

MaxTfvars == 2

\* An int, held as its decimal numeral
PyInt(numeral) == [t |-> "int", s |-> numeral, b |-> FALSE, l |-> <<>>]

\* Python: ord(c), for the characters of the names used here
ord(c) ==
    CASE c = "a" -> 97
      [] c = "b" -> 98
      [] c = "s" -> 115
      [] OTHER -> 0

\* Python: s < t for two str
RECURSIVE str_less(_, _)
str_less(s, t) ==
    IF t = <<>> THEN FALSE
    ELSE IF s = <<>> THEN TRUE
    ELSE IF Head(s) = Head(t) THEN str_less(Tail(s), Tail(t))
    ELSE ord(Head(s)) < ord(Head(t))

\* Python: sorted(d.items()) of a dict with str keys: by key, since the keys
\* of a dict are distinct
RECURSIVE sorted_items(_)
sorted_items(d) ==
    IF d = <<>> THEN <<>>
    ELSE LET i == CHOOSE k \in 1..Len(d) :
                      \A j \in 1..Len(d) : j # k => str_less(d[k].name, d[j].name)
         IN  <<d[i]>> \o sorted_items(SubSeq(d, 1, i - 1) \o SubSeq(d, i + 1, Len(d)))

\* TfvarsHandler._format_value
_format_value(value) ==
    CASE value.t = "bool" -> IF value.b THEN S_true ELSE S_false
      [] value.t = "int" -> value.s
      [] value.t = "str" ->
            <<"\"">> \o replace(replace(value.s, <<"\\">>, <<"\\", "\\">>),
                                <<"\"">>, <<"\\", "\"">>)
                     \o <<"\"">>
      [] OTHER -> json_dumps(value)

RECURSIVE tfvars_lines(_, _)
tfvars_lines(items, sensitive_names) ==
    IF items = <<>> THEN <<>>
    ELSE (IF Head(items).name \in sensitive_names THEN <<>>
          ELSE <<Head(items).name \o <<" ", "=", " ">> \o _format_value(Head(items).value)>>)
         \o tfvars_lines(Tail(items), sensitive_names)

\* TfvarsHandler.write_tfvars: what is written to the file
write_tfvars(values, sensitive_names) ==
    LET lines == tfvars_lines(sorted_items(values), sensitive_names)
    IN  str_join(<<LF>>, lines) \o (IF lines # <<>> THEN <<LF>> ELSE <<>>)

TfNames == {<<"a">>, <<"a", "b">>, <<"b">>, <<"s">>}
TfValues == {PyStr(<<"v">>), PyStr(<<"\"", "\\">>), PyStr(<<"v", LF, "s", " ", "=", " ", "1">>),
             PyBool(TRUE), PyInt(<<"1">>), PyList(<<<<"v">>>>)}
TfDicts == Dicts([name : TfNames, value : TfValues], MaxTfvars)

\* TfvarsHandler.write_tfvars(path, values, sensitive_names)
WriteTfvars ==
    /\ TxtReady
    /\ \E values \in TfDicts, sensitive_names \in SUBSET TfNames :
          /\ txt_call' = [fn |-> "write_tfvars", values |-> values,
                          sensitive_names |-> sensitive_names]
          /\ txt_result' = write_tfvars(values, sensitive_names)

TxtNext ==
    \/ ListWorkspaces
    \/ ListResources
    \/ WriteTfvars

(***************************************************************************)
(* ProjectManager (core/project_manager.py) and MainWindow.closeEvent      *)
(***************************************************************************)

MaxProjectCalls == 4

PmNames == {<<"x">>, <<"y">>}
PmValues == {<<"v">>, <<"w">>}
\* A dict from names to values
PmDicts == UNION {[S -> PmValues] : S \in SUBSET PmNames}
EmptyDict == [n \in {} |-> <<>>]

\* ProjectManager._get_default_state: the variables section
_get_default_state == [variables |-> EmptyDict]

\* ProjectManager._deep_update on the variables section: base[key] = value
\* for every key of the update
_deep_update(base, updates) ==
    [n \in DOMAIN base \cup DOMAIN updates |->
        IF n \in DOMAIN updates THEN updates[n] ELSE base[n]]

\* ProjectManager.load: the state after the call.  readable is false when
\* reading or decoding the file fails
ProjectManager_load(file, readable) ==
    IF ~file.exists THEN _get_default_state
    ELSE IF readable
         THEN [variables |-> _deep_update(_get_default_state.variables, file.variables)]
    ELSE _get_default_state

\* ProjectManager.set_variable_value: the state after the call
set_variable_value(state, var_name, value, sensitive) ==
    IF sensitive THEN state
    ELSE [variables |-> [n \in DOMAIN state.variables \cup {var_name} |->
                            IF n = var_name THEN value ELSE state.variables[n]]]

\* ProjectManager.save: the file after the call.  writable is false when
\* opening the file fails with IOError
ProjectManager_save(state, file, writable) ==
    IF writable THEN [exists |-> TRUE, variables |-> state.variables] ELSE file

\* VariablesPanel.get_non_sensitive_values over what the widgets hold: the
\* empty string stands for a widget left empty
get_non_sensitive_values(widgets, sensitive) ==
    [n \in {k \in DOMAIN widgets : k \notin sensitive /\ widgets[k] # <<>>} |-> widgets[n]]

RECURSIVE set_all(_, _)
\* closeEvent: set_variable_value for every item of the dict
set_all(state, values) ==
    IF DOMAIN values = {} THEN state
    ELSE LET n == CHOOSE k \in DOMAIN values : TRUE
         IN  set_all(set_variable_value(state, n, values[n], FALSE),
                     [k \in DOMAIN values \ {n} |-> values[k]])

NoWrite == [done |-> FALSE, variables |-> EmptyDict, sensitive |-> {}]

PmIdle ==
    /\ _state = _get_default_state
    /\ tfgui_file = [exists |-> FALSE, variables |-> EmptyDict]
    /\ pm_sensitive = {}
    /\ pm_written = NoWrite
    /\ pm_phase = "open"
    /\ pm_calls = 0

\* A ProjectManager just constructed, over a project that has no .tfgui file
\* or one that holds values of variables that are not sensitive-flagged
PmInit ==
    /\ _state = _get_default_state
    /\ pm_sensitive \in SUBSET PmNames
    /\ \E d \in PmDicts, present \in BOOLEAN :
          /\ ~present => d = EmptyDict
          /\ DOMAIN d \cap pm_sensitive = {}
          /\ tfgui_file = [exists |-> present, variables |-> d]
    /\ pm_written = NoWrite
    /\ pm_phase = "open"
    /\ pm_calls = 0

PmCall ==
    /\ pm_phase = "open"
    /\ pm_calls < MaxProjectCalls
    /\ pm_calls' = pm_calls + 1
    /\ UNCHANGED notPm

\* project_manager.load()
PmLoad ==
    /\ PmCall
    /\ \E readable \in BOOLEAN : _state' = ProjectManager_load(tfgui_file, readable)
    /\ UNCHANGED <<tfgui_file, pm_sensitive, pm_written, pm_phase>>

\* project_manager.set_variable_value(var_name, value, sensitive): the
\* caller passes the flag the variable has now
PmSetVariableValue ==
    /\ PmCall
    /\ \E var_name \in PmNames, value \in PmValues, sensitive \in BOOLEAN :
          /\ _state' = set_variable_value(_state, var_name, value, sensitive)
          /\ pm_sensitive' = IF sensitive THEN pm_sensitive \cup {var_name}
                             ELSE pm_sensitive \ {var_name}
    /\ UNCHANGED <<tfgui_file, pm_written, pm_phase>>

\* project_manager.save()
PmSave ==
    /\ PmCall
    /\ \E writable \in BOOLEAN :
          /\ tfgui_file' = ProjectManager_save(_state, tfgui_file, writable)
          /\ pm_written' = IF writable
                           THEN [done |-> TRUE, variables |-> _state.variables,
                                 sensitive |-> pm_sensitive]
                           ELSE pm_written
    /\ UNCHANGED <<_state, pm_sensitive, pm_phase>>

\* MainWindow.closeEvent with a project loaded: the values of the
\* non-sensitive widgets are set, then the state is saved
closeEvent ==
    /\ PmCall
    /\ \E widgets \in [PmNames -> PmValues \cup {<<>>}], writable \in BOOLEAN :
          LET state == set_all(_state, get_non_sensitive_values(widgets, pm_sensitive))
          IN  /\ _state' = state
              /\ tfgui_file' = ProjectManager_save(state, tfgui_file, writable)
              /\ pm_written' = IF writable
                               THEN [done |-> TRUE, variables |-> state.variables,
                                     sensitive |-> pm_sensitive]
                               ELSE pm_written
    /\ pm_phase' = "closed"
    /\ UNCHANGED pm_sensitive

PmNext ==
    \/ PmLoad
    \/ PmSetVariableValue
    \/ PmSave
    \/ closeEvent

(***************************************************************************)
(* Settings (config/settings.py) over DEFAULT_SETTINGS (config/defaults.py).*)
(* A nested dict or a list is an object of the heap, held by reference, so *)
(* that two dicts can hold the same object.  A project path is a positive  *)
(* number, 0 is the empty string.                                          *)
(***************************************************************************)

MaxRecentAdds == 11
MaxSettingsCalls == 4

DEFAULT_MAX_RECENT_PROJECTS == 10
DEFAULT_WINDOW_WIDTH == 900
OtherWidth == 800

DictObject(width) == [kind |-> "dict", width |-> width, items |-> <<>>]
ListObject(items) == [kind |-> "list", width |-> 0, items |-> items]

\* The objects defaults.py builds when the module is imported: the "window"
\* dict is object 1 and the "recent_projects" list is object 2
DefaultHeap == <<DictObject(DEFAULT_WINDOW_WIDTH), ListObject(<<>>)>>

\* defaults.py: the top-level dict
DEFAULT_SETTINGS ==
    [recent_projects |-> 2,
     max_recent_projects |-> DEFAULT_MAX_RECENT_PROJECTS,
     last_project_path |-> 0,
     window |-> 1]

\* Python: dict.copy(), which copies the top level only
dict_copy(d) == d

\* What a dict holds, with every reference followed
Deref(settings, heap) ==
    [recent_projects |-> heap[settings.recent_projects].items,
     max_recent_projects |-> settings.max_recent_projects,
     last_project_path |-> settings.last_project_path,
     window |-> [width |-> heap[settings.window].width]]

\* Settings._deep_update(self._settings, loaded_settings): base["window"] and
\* the loaded "window" are both dicts, so the loaded width is written into
\* the dict base holds; every other key is assigned
Settings_deep_update(base, heap, updates) ==
    LET list == Len(heap) + 1
    IN  [settings |-> [base EXCEPT !.recent_projects = list,
                                   !.max_recent_projects = updates.max_recent_projects,
                                   !.last_project_path = updates.last_project_path],
         heap |-> Append([heap EXCEPT ![base.window].width = updates.window.width],
                         ListObject(updates.recent_projects))]

\* Settings.load: readable is false when reading or decoding the file fails
Settings_load(heap, file, readable) ==
    IF ~file.exists THEN [settings |-> dict_copy(DEFAULT_SETTINGS), heap |-> heap]
    ELSE IF readable
         THEN Settings_deep_update(dict_copy(DEFAULT_SETTINGS), heap, file.content)
    ELSE [settings |-> dict_copy(DEFAULT_SETTINGS), heap |-> heap]

\* Settings.save: the file after the call
Settings_save(settings, heap, file, writable) ==
    IF writable THEN [exists |-> TRUE, content |-> Deref(settings, heap)] ELSE file

\* Settings.get of a top-level key
Settings_get(settings, key) ==
    CASE key = "recent_projects" -> settings.recent_projects
      [] key = "max_recent_projects" -> settings.max_recent_projects
      [] OTHER -> settings.last_project_path

\* Settings.set: for "window.width" the target is the dict the "window" key
\* holds; a key without a dot is assigned in the top-level dict
Settings_set(settings, heap, key, value) ==
    CASE key = "window.width" ->
            [settings |-> settings,
             heap |-> [heap EXCEPT ![settings.window].width = value]]
      [] key = "recent_projects" ->
            [settings |-> [settings EXCEPT !.recent_projects = value], heap |-> heap]
      [] OTHER ->
            [settings |-> [settings EXCEPT !.last_project_path = value], heap |-> heap]

\* Python: x in l
list_contains(l, x) == \E i \in 1..Len(l) : l[i] = x

\* A remove that leaves the list as it is
list_remove_nothing(l, x) == l

\* Python: l.remove(x) for an x that is in l: the first x goes
list_remove(l, x) ==
    LET i == CHOOSE k \in 1..Len(l) : l[k] = x /\ \A j \in 1..(k - 1) : l[j] # x
    IN  SubSeq(l, 1, i - 1) \o SubSeq(l, i + 1, Len(l))

\* Python: l[:n] for n >= 0
list_prefix(l, n) == SubSeq(l, 1, IF n < Len(l) THEN n ELSE Len(l))

\* Settings.add_recent_project: the list get() returns is changed in place,
\* its slice is a new list, and set() stores the new list
add_recent_project(settings, heap, project_path) ==
    LET recent == Settings_get(settings, "recent_projects")
        removed == IF list_contains(heap[recent].items, project_path)
                   THEN list_remove(heap[recent].items, project_path)
                   ELSE heap[recent].items
        inserted == <<project_path>> \o removed
        max_projects == Settings_get(settings, "max_recent_projects")
        heap1 == [heap EXCEPT ![recent].items = inserted]
        heap2 == Append(heap1, ListObject(list_prefix(inserted, max_projects)))
    IN  Settings_set(settings, heap2, "recent_projects", Len(heap2))

NoConfigFile == [exists |-> FALSE, content |-> Deref(DEFAULT_SETTINGS, DefaultHeap)]

StIdle ==
    /\ st_heap = DefaultHeap
    /\ _settings = DEFAULT_SETTINGS
    /\ config_file = NoConfigFile
    /\ st_phase = "new"
    /\ st_added = <<>>
    /\ st_budget = 0
    /\ st_calls = 0

\* Settings.__init__ up to its call of load(), with no config file or one a
\* session wrote that changed nothing
StInit ==
    /\ st_heap = DefaultHeap
    /\ _settings = DEFAULT_SETTINGS
    /\ \E present \in BOOLEAN :
          config_file = [exists |-> present, content |-> Deref(DEFAULT_SETTINGS, DefaultHeap)]
    /\ st_phase = "new"
    /\ st_added = <<>>
    /\ st_budget = MaxSettingsCalls
    /\ st_calls = 0

\* A Settings object constructed where there is no config file
StInitDefault ==
    /\ st_heap = Settings_load(DefaultHeap, NoConfigFile, TRUE).heap
    /\ _settings = Settings_load(DefaultHeap, NoConfigFile, TRUE).settings
    /\ config_file = NoConfigFile
    /\ st_phase = "loaded"
    /\ st_added = <<>>
    /\ st_budget = MaxRecentAdds
    /\ st_calls = 0

StCall ==
    /\ st_calls < st_budget
    /\ st_calls' = st_calls + 1
    /\ UNCHANGED <<st_budget, notSt>>

\* settings.load(), first from __init__
SettingsLoad ==
    /\ StCall
    /\ \E readable \in BOOLEAN :
          LET loaded == Settings_load(st_heap, config_file, readable)
          IN  /\ _settings' = loaded.settings
              /\ st_heap' = loaded.heap
    /\ st_phase' = "loaded"
    /\ UNCHANGED <<config_file, st_added>>

\* settings.save()
SettingsSave ==
    /\ StCall
    /\ st_phase = "loaded"
    /\ \E writable \in BOOLEAN :
          config_file' = Settings_save(_settings, st_heap, config_file, writable)
    /\ UNCHANGED <<st_heap, _settings, st_phase, st_added>>

\* settings.set(key, value) with a dotted key or a top-level key
SettingsSet ==
    /\ StCall
    /\ st_phase = "loaded"
    /\ \E key \in {"window.width", "last_project_path"} :
          \E value \in IF key = "window.width" THEN {DEFAULT_WINDOW_WIDTH, OtherWidth}
                       ELSE {0, 1} :
             LET done == Settings_set(_settings, st_heap, key, value)
             IN  /\ _settings' = done.settings
                 /\ st_heap' = done.heap
    /\ UNCHANGED <<config_file, st_phase, st_added>>

\* settings.add_recent_project(project_path) of a path not added before, of
\* the path added first or of the path added last
SettingsAddRecentProject ==
    /\ StCall
    /\ st_phase = "loaded"
    /\ \E project_path \in {1, Len(st_added), Len(st_added) + 1} \ {0} :
          LET done == add_recent_project(_settings, st_heap, project_path)
          IN  /\ _settings' = done.settings
              /\ st_heap' = done.heap
              /\ st_added' = [p \in 1..(IF project_path > Len(st_added)
                                        THEN project_path ELSE Len(st_added)) |->
                                 IF p = project_path THEN st_calls + 1 ELSE st_added[p]]
    /\ UNCHANGED <<config_file, st_phase>>

StNext ==
    \/ SettingsLoad
    \/ SettingsSave
    \/ SettingsSet
    \/ SettingsAddRecentProject

RecentNext ==
    \/ SettingsAddRecentProject

(***************************************************************************)
(* Specifications: each runs one part of the program and leaves the state  *)
(* of the others as constructed                                            *)
(***************************************************************************)

\* No call in progress
BldIdle ==
    /\ bld_runner = [terraform_binary |-> <<"t", "f">>, project_path |-> <<"/", "h">>]
    /\ bld_call = NoCall
    /\ bld_phase = "ready"
    /\ bld_raised = None
    /\ bld_msg = <<>>
    /\ bld_spawned = <<>>

InitRedact == RedInit /\ BldIdle /\ ExecInit /\ GuiInit /\ SanIdle /\ SecIdle /\ TxtIdle /\ PmIdle /\ StIdle
SpecRedact == InitRedact /\ [][RedNext]_vars

InitBuild == BldInit /\ RedInit /\ ExecInit /\ GuiInit /\ SanIdle /\ SecIdle /\ TxtIdle /\ PmIdle /\ StIdle
SpecBuild == InitBuild /\ [][BldNext]_vars

\* One execution by a runner whose redactor holds some secrets
InitExec ==
    /\ ExecInit
    /\ BldIdle
    /\ sensitive_values \in ExSecretLists
    /\ red_text = <<>> /\ red_out = <<>> /\ red_depth = 0
    /\ GuiInit
    /\ SanIdle
    /\ SecIdle
    /\ TxtIdle
    /\ PmIdle
    /\ StIdle
SpecExec == InitExec /\ [][ExecNext]_vars

\* The threads of the program get to run, time passes and timed waits end;
\* nothing obliges the child to write, close or exit
SpecExecFair ==
    /\ SpecExec
    /\ WF_vars(WorkerStep)
    /\ WF_vars(ThreadStep)
    /\ WF_vars(timeout_elapses)

\* A session of the main window
InitGui == GuiInit /\ RedInit /\ BldIdle /\ ExecInit /\ SanIdle /\ SecIdle /\ TxtIdle /\ PmIdle /\ StIdle
SpecGui == InitGui /\ [][GuiNext]_vars

\* One call of a sanitizer function
InitSanitize == SanInit /\ RedInit /\ BldIdle /\ ExecInit /\ GuiInit /\ SecIdle /\ TxtIdle /\ PmIdle /\ StIdle
SpecSanitize == InitSanitize /\ [][SanNext]_vars

\* The life of one SecureString
InitSecure == SecInit /\ RedInit /\ BldIdle /\ ExecInit /\ GuiInit /\ SanIdle /\ TxtIdle /\ PmIdle /\ StIdle
SpecSecure == InitSecure /\ [][SecNext]_vars

\* One call of a parsing or writing function
InitText ==
    /\ TxtIdle
    /\ RedInit
    /\ BldIdle
    /\ ExecInit
    /\ GuiInit
    /\ SanIdle
    /\ SecIdle
    /\ PmIdle
    /\ StIdle
SpecText == InitText /\ [][TxtNext]_vars

\* A session of one ProjectManager
InitProject ==
    /\ PmInit
    /\ RedInit
    /\ BldIdle
    /\ ExecInit
    /\ GuiInit
    /\ SanIdle
    /\ SecIdle
    /\ TxtIdle
    /\ StIdle
SpecProject == InitProject /\ [][PmNext]_vars

\* A session of one Settings object
InitSettings ==
    /\ StInit
    /\ RedInit
    /\ BldIdle
    /\ ExecInit
    /\ GuiInit
    /\ SanIdle
    /\ SecIdle
    /\ TxtIdle
    /\ PmIdle
SpecSettings == InitSettings /\ [][StNext]_vars

\* Calls of add_recent_project on a Settings object that started from the defaults
InitRecent ==
    /\ StInitDefault
    /\ RedInit
    /\ BldIdle
    /\ ExecInit
    /\ GuiInit
    /\ SanIdle
    /\ SecIdle
    /\ TxtIdle
    /\ PmIdle
SpecRecent == InitRecent /\ [][RecentNext]_vars

\* C1: the string redact(text) returns contains none of the registered
\* secret values as a substring.
C1_NoSecretInRedacted ==
    red_depth >= 1 =>
        \A i \in 1..Len(sensitive_values) : ~Contains(red_out, sensitive_values[i])

\* C2: redaction is idempotent: redact(redact(text)) = redact(text).
C2_RedactIdempotent ==
    red_depth = 2 => red_out = red_text

\* C3: no line the output viewer shows contains the sensitive value that
\* was entered when the operation was started.
C3_ViewerNeverShowsSecret ==
    op_secret # <<>> =>
        \A i \in 1..Len(viewer) : ~Contains(viewer[i], op_secret)

\* ---- what a call's validation rejects, stated input by input

\* One (name, value) pair of a variables mapping is rejected
VarRejected(pair, var_types) ==
    \/ ~sanitize_variable_name(pair.name).ok
    \/ ~sanitize_variable_value(pair.value, var_type_of(var_types, pair.name)).ok
    \/ ~is_safe_command_arg(
            pair.name \o <<"=">>
            \o sanitize_variable_value(pair.value,
                                       var_type_of(var_types, pair.name)).value)

\* One (key, value) pair of a backend_config mapping is rejected
BackendRejected(pair) ==
    \/ ~sanitize_variable_name(pair.name).ok
    \/ ~sanitize_variable_value(pair.value, "string").ok
    \/ ~is_safe_command_arg(
            S_backend_config \o pair.name \o <<"=">>
            \o sanitize_variable_value(pair.value, "string").value)

\* Some input of the call is rejected by the validation its operation applies
CallRejected(runner, call) ==
    LET chdir_unsafe == ~is_safe_command_arg(S_chdir \o runner.project_path)
        binary_unsafe == ~is_safe_command_arg(runner.terraform_binary)
    IN  CASE call.op = "init" ->
                \/ chdir_unsafe
                \/ \E i \in 1..Len(call.backend_config) :
                        BackendRejected(call.backend_config[i])
          [] call.op = "validate" -> chdir_unsafe
          [] call.op = "plan" ->
                \/ chdir_unsafe
                \/ \E i \in 1..Len(call.variables) :
                        VarRejected(call.variables[i], call.var_types)
                \/ Truthy(call.out_file) /\ ~is_safe_command_arg(call.out_file.s)
          [] call.op \in {"apply", "destroy"} ->
                \/ chdir_unsafe
                \/ \E i \in 1..Len(call.variables) :
                        VarRejected(call.variables[i], call.var_types)
          [] call.op \in {"ws_select", "ws_new", "ws_delete"} ->
                \/ ~sanitize_workspace_name(call.name).ok
                \/ chdir_unsafe \/ binary_unsafe
                \/ ~is_safe_command_arg(call.name)
          [] call.op = "state_show" ->
                \/ ~_validate_resource_address(call.address).ok
                \/ chdir_unsafe \/ binary_unsafe
                \/ ~is_safe_command_arg(call.address)
          [] OTHER -> FALSE

\* C4: a call in which a name, value, workspace name, resource address or
\* assembled argument is rejected raises SecurityError and hands nothing to
\* process creation.
C4_RejectedNeverSpawns ==
    (bld_phase = "done" /\ CallRejected(bld_runner, bld_call)) =>
        (bld_raised = "SecurityError" /\ bld_spawned = <<>>)

\* A plan call whose first variable is accepted and whose second is rejected
\* has ended
C4_Witness ==
    /\ bld_phase = "done"
    /\ bld_call.op = "plan"
    /\ Len(bld_call.variables) = 2
    /\ ~VarRejected(bld_call.variables[1], bld_call.var_types)
    /\ VarRejected(bld_call.variables[2], bld_call.var_types)
    /\ bld_raised = "SecurityError"

\* C5: every token of every argument vector the runner hands to process
\* creation satisfies is_safe_command_arg.
C5_SpawnedTokensSafe ==
    (bld_phase = "done" /\ bld_call.op \in RunnerOps) =>
        \A k \in 1..Len(bld_spawned) :
            \A i \in 1..Len(bld_spawned[k]) : is_safe_command_arg(bld_spawned[k][i])

\* The command holds the token -auto-approve
HasAutoApprove(argv) == \E i \in 1..Len(argv) : argv[i] = S_auto_approve

C7_LateChildTimesOut ==
    ex_late ~>
        (/\ ex_pc \in {"returned", "finished"}
         /\ ch_signalled \/ ch_state = "exited"
         /\ ex_result = CommandResult(-1, ex_result.stdout, S_timed_out, FALSE,
                                   ex_operation))

\* C8: when process creation fails with an OS-level error the operation
\* raises nothing to its caller and yields a result with success = false
\* and exit_code = -1.
C8_SpawnFailureYieldsResult ==
    (ex_spawn_failed /\ ex_pc = "finished") =>
        (ex_raised = None /\ ex_result.exit_code = -1 /\ ~ex_result.success)

\* C9: no cancel() call raises an error, however its steps interleave with
\* the thread that sets and clears _process.
C9_CancelNeverRaises ==
    ui_raised = None

\* The child processes started by the window's runners that are running
live_children == (IF wk_pc = "child" THEN 1 ELSE 0) + orphans

\* C10: at most one worker thread and at most one child process exist.
C10_OneOperationInFlight ==
    Cardinality(qthreads) <= 1 /\ live_children <= 1

\* The execution has left _execute: its result is with the worker
ExecuteLeft == ex_pc \in {"returned", "finished"}

\* C11: once _execute has returned, no line is appended to the captured
\* stdout or stderr text and output_callback is not called again.
C11_NoOutputAfterReturn ==
    [][ExecuteLeft =>
        /\ stdout_lines' = stdout_lines
        /\ stderr_lines' = stderr_lines
        /\ ex_callback' = ex_callback]_vars

\* The texts of the entries of one stream, in the order of the sequence
RECURSIVE texts_of(_, _)
texts_of(stream, entries) ==
    IF entries = <<>> THEN <<>>
    ELSE IF Head(entries).stream = stream
         THEN <<Head(entries).text>> \o texts_of(stream, Tail(entries))
         ELSE texts_of(stream, Tail(entries))

\* The lines the child wrote to one stream, each as _execute captures it
emitted_redacted(stream) ==
    LET lines == texts_of(stream, ch_sent)
    IN  [i \in 1..Len(lines) |->
            redact(sensitive_values, rstrip_newline(lines[i]))]

\* _execute returned a result, from the final return or the except clause
ExecuteReturned == ExecuteLeft /\ ex_pending.kind \in {"normal", "result"}

\* C12 (stdout): the stdout lines passed to output_callback and the text of
\* CommandResult.stdout are the redacted lines the child wrote to stdout, in
\* the order it wrote them.
C12_StdoutInOrder ==
    ExecuteReturned =>
        /\ texts_of("stdout", ex_callback) = emitted_redacted("stdout")
        /\ ex_result.stdout = join(<<LF>>, emitted_redacted("stdout"))

\* C12: per stream, order is preserved: what C12_StdoutInOrder says of
\* stdout, and on a completion without timeout CommandResult.stderr is the
\* text of the redacted lines the child wrote to stderr, in order.
C12_PerStreamOrder ==
    /\ C12_StdoutInOrder
    /\ (ExecuteReturned /\ ex_pending.kind = "normal") =>
            ex_result.stderr = join(<<LF>>, emitted_redacted("stderr"))

\* C13 (result): when the worker has emitted finished, a spawn failure, a
\* timeout and a non-zero exit each arrived as a result that is not a
\* success, and a success has exit code 0.
C13_FailureIsResult ==
    ex_pc = "finished" =>
        /\ ex_result.command = ex_operation
        /\ (ex_spawn_failed \/ ex_pending.kind = "result" \/ ex_exit_code # 0)
                => ~ex_result.success
        /\ ex_result.success => ex_result.exit_code = 0

\* C13 (one notification): the finished notifications waiting in the UI
\* thread's queue number at most one, and each carries a result whose
\* success flag says that the exit code is 0.
C13_OneFinishedQueued ==
    LET stores == SelectSeq(ui_queue, LAMBDA e : e.type = "store")
    IN  /\ Len(stores) <= 1
        /\ \A i \in 1..Len(stores) :
              /\ stores[i].result # NoResult
              /\ stores[i].result.success = (stores[i].result.exit_code = 0)

\* C13: every operation started in a worker completes: once the worker has
\* called the operation, it emits finished with a result.
C13_OperationCompletes ==
    (ex_pc = "popen") ~> (ex_pc = "finished" /\ ex_result # NoResult)

\* The sanitizer function fn has been called and has returned or raised
SanDone(fn) == san_phase = "done" /\ san_call.fn = fn

\* A string of at most 255 characters that starts with a letter or an
\* underscore and goes on with letters, digits, underscores and hyphens
IsVariableName(name) ==
    /\ name # <<>>
    /\ Len(name) <= 255
    /\ name[1] \in Letters \cup {"_"}
    /\ \A i \in 2..Len(name) : name[i] \in Letters \cup Digits \cup {"_", "-"}

\* C14: sanitize_variable_name returns the name unchanged when it is a
\* variable name and raises SecurityError for every other string.
C14_VariableNameAcceptedIffValid ==
    SanDone("sanitize_variable_name") =>
        IF IsVariableName(san_call.arg.s)
        THEN san_result = Returned(san_call.arg.s)
        ELSE san_result.exc = "SecurityError"

\* The characters a value of type string may not hold
StringBlocked == {";", "|", "&", "$", BACKTICK, "\"", "\\", LF, CR}

HasBlocked(s) == \E i \in 1..Len(s) : s[i] \in StringBlocked

\* sanitize_variable_value has been called on a str with type hint "string"
StringValueDone ==
    /\ SanDone("sanitize_variable_value")
    /\ san_call.type = "string"
    /\ san_call.arg.t = "str"

\* C15: with type hint "string", sanitize_variable_value raises
\* SecurityError for every string that holds a blocked character and
\* returns unchanged every string of at most 4096 characters that holds none.
C15_StringValueBlockedOrUnchanged ==
    StringValueDone =>
        /\ HasBlocked(san_call.arg.s) => san_result.exc = "SecurityError"
        /\ (~HasBlocked(san_call.arg.s) /\ Len(san_call.arg.s) <= 4096)
                => san_result = Returned(san_call.arg.s)

\* A string ending in a carriage return was rejected
C15_Witness ==
    /\ StringValueDone
    /\ san_call.arg.s = <<"a", CR>>
    /\ san_result.exc = "SecurityError"

\* C16: for every type hint, sanitize_variable_value raises or returns a
\* string of at most 4096 characters.
C16_ValueLengthEnforced ==
    SanDone("sanitize_variable_value") =>
        (san_result.ok => Len(san_result.value) <= 4096)

\* A workspace name: 1 to 90 letters, digits, underscores and hyphens, the
\* first of them no hyphen
IsWorkspaceName(name) ==
    /\ name # <<>>
    /\ Len(name) <= 90
    /\ name[1] # "-"
    /\ \A i \in 1..Len(name) : name[i] \in Letters \cup Digits \cup {"_", "-"}

\* C17: sanitize_workspace_name raises SecurityError for every name that is
\* empty, longer than 90 characters, starts with a hyphen or holds a
\* character outside letters, digits, underscore and hyphen, and returns
\* every other name unchanged.
C17_WorkspaceNameAcceptedIffValid ==
    SanDone("sanitize_workspace_name") =>
        IF IsWorkspaceName(san_call.arg.s)
        THEN san_result = Returned(san_call.arg.s)
        ELSE san_result.exc = "SecurityError"

\* The path is an approved root or lies below one
InApprovedRoot(abs_path) ==
    \E root \in {home_dir, S_opt_terraform, S_tmp_terraform} :
        abs_path = root \/ StartsWith(abs_path, root \o <<"/">>)

\* C18: a path sanitize_path returns exists, is a directory and lies within
\* an approved root.
C18_ReturnedPathInApprovedRoot ==
    (SanDone("sanitize_path") /\ san_result.ok) =>
        /\ exists(san_result.value)
        /\ isdir(san_result.value)
        /\ InApprovedRoot(san_result.value)

\* A runner operation has handed its command to _execute
RunnerSpawned ==
    bld_phase = "done" /\ bld_call.op \in RunnerOps /\ bld_spawned # <<>>

\* The subcommand of a runner operation
Subcommand(op) ==
    CASE op = "init" -> <<"i", "n", "i", "t">>
      [] op = "validate" -> <<"v", "a", "l", "i", "d", "a", "t", "e">>
      [] op = "plan" -> <<"p", "l", "a", "n">>
      [] op = "apply" -> <<"a", "p", "p", "l", "y">>
      [] op = "destroy" -> <<"d", "e", "s", "t", "r", "o", "y">>

\* C19: the command of a runner operation starts with the binary, the
\* -chdir argument and the subcommand; validate adds -no-color and nothing
\* else; the other operations go on with -input=false and -no-color; the
\* flags after the subcommand hold -auto-approve exactly for an apply or a
\* destroy called with auto_approve true.
C19_CommandFollowsAssemblyRules ==
    RunnerSpawned =>
        LET argv == bld_spawned[1]
            base == <<bld_runner.terraform_binary,
                      S_chdir \o bld_runner.project_path,
                      Subcommand(bld_call.op)>>
        IN  /\ Len(argv) >= 4
            /\ SubSeq(argv, 1, 3) = base
            /\ bld_call.op = "validate" => argv = base \o <<S_no_color>>
            /\ bld_call.op # "validate" =>
                    /\ Len(argv) >= 5
                    /\ argv[4] = S_input_false
                    /\ argv[5] = S_no_color
            /\ HasAutoApprove(SubSeq(argv, 4, Len(argv)))
                    <=> (bld_call.op \in {"apply", "destroy"} /\ bld_call.auto_approve)

\* An apply with auto_approve and two variables has reached _execute
C19_Witness ==
    /\ RunnerSpawned
    /\ bld_call.op = "apply"
    /\ bld_call.auto_approve
    /\ Len(bld_call.variables) = 2
    /\ HasAutoApprove(bld_spawned[1])

\* The type a variable is sanitized under
DeclaredType(var_types, name) ==
    IF name \in DOMAIN var_types THEN var_types[name] ELSE "string"

\* The two tokens of each variable, in the order of the mapping
RECURSIVE VarTokens(_, _)
VarTokens(variables, var_types) ==
    IF variables = <<>> THEN <<>>
    ELSE LET pair == Head(variables)
         IN  <<S_var,
               pair.name \o <<"=">>
                \o sanitize_variable_value(
                        pair.value, DeclaredType(var_types, pair.name)).value>>
             \o VarTokens(Tail(variables), var_types)

\* A plan, apply or destroy call all of whose variables are valid has ended
ValidVariablesCall ==
    /\ bld_phase = "done"
    /\ bld_call.op \in {"plan", "apply", "destroy"}
    /\ is_safe_command_arg(S_chdir \o bld_runner.project_path)
    /\ ~(Truthy(bld_call.out_file) /\ ~is_safe_command_arg(bld_call.out_file.s))
    /\ \A i \in 1..Len(bld_call.variables) :
            ~VarRejected(bld_call.variables[i], bld_call.var_types)

\* C20: for a mapping in which every pair is valid, the command holds,
\* after its flags, the tokens "-var" and "<name>=<sanitized value>" of each
\* pair in mapping order, the value sanitized under its declared type or
\* under "string"; it holds as many "-var" tokens as there are variables.
C20_VariablesInjectedInOrder ==
    ValidVariablesCall =>
        /\ bld_spawned # <<>>
        /\ LET argv == bld_spawned[1]
               flags == IF bld_call.op # "plan" /\ bld_call.auto_approve THEN 6 ELSE 5
               tokens == VarTokens(bld_call.variables, bld_call.var_types)
           IN  /\ Len(argv) >= flags + Len(tokens)
               /\ SubSeq(argv, flags + 1, flags + Len(tokens)) = tokens
               /\ Cardinality({i \in 1..Len(argv) : argv[i] = S_var})
                    = Len(bld_call.variables)

\* A plan with two valid variables, one of a declared type, reached _execute
C20_Witness ==
    /\ ValidVariablesCall
    /\ bld_call.op = "plan"
    /\ Len(bld_call.variables) = 2
    /\ bld_call.variables[1].name \in DOMAIN bld_call.var_types
    /\ bld_spawned # <<>>

\* C21: str() and repr() of a SecureString yield only the redacted
\* placeholder in every state; get_value() returns the wrapped value as long
\* as neither clear() nor __exit__() has run, and once one of them has run
\* every get_value() raises ValueError and is_cleared() is true, whatever
\* calls follow
C21_SecureStringLifecycle ==
    /\ ss_op = "__str__" => ss_last = Returned(PyStr(REDACTED))
    /\ ss_op = "__repr__" =>
          /\ ss_last.ok
          /\ ss_last.value.s = <<"S", "e", "c", "u", "r", "e", "S", "t", "r", "i", "n", "g",
                                 "(", "[", "R", "E", "D", "A", "C", "T", "E", "D", "]", ")">>
    /\ (ss_op = "get_value" /\ ~ss_clear_ran) => ss_last = Returned(PyStr(ss_wrapped))
    /\ (ss_op = "get_value" /\ ss_clear_ran) =>
          /\ ~ss_last.ok
          /\ ss_last.exc = "ValueError"
    /\ (ss_op = "is_cleared" /\ ss_clear_ran) => ss_last = Returned(PyBool(TRUE))
    /\ ss_clear_ran => SecureString_is_cleared(ss_self) = Returned(PyBool(TRUE))
    /\ ss_clear_ran => ~SecureString_get_value(ss_self).ok

\* A get_value() call failed after clear() had run twice
C21_Witness ==
    /\ ss_op = "get_value"
    /\ ss_clear_ran
    /\ ss_calls = MaxSecureCalls
    /\ ss_wrapped # <<>>
    /\ ~ss_last.ok

TxtDone(fn) == txt_phase = "done" /\ txt_call.fn = fn
NonBlank(line) == strip(line) # <<>>

\* C22: list_workspaces of a successful command returns one WorkspaceInfo per
\* non-blank output line, in output order: the trimmed remainder with
\* is_current true for a line whose trimmed form starts with "* ", the trimmed
\* line with is_current false for any other; a failed command (non-zero exit,
\* timeout, OS error) or one with no non-blank line gives exactly the one
\* workspace default with is_current true, so the result is never empty
C22_WorkspacesParsed ==
    TxtDone("list_workspaces") =>
        LET kept == SelectSeq(txt_call.lines, NonBlank)
        IN  /\ txt_result # <<>>
            /\ IF txt_call.kind = "exit" /\ txt_call.code = 0 /\ kept # <<>>
               THEN /\ Len(txt_result) = Len(kept)
                    /\ \A i \in 1..Len(kept) :
                          LET t == strip(kept[i])
                          IN  IF StartsWith(t, <<"*", " ">>)
                              THEN /\ txt_result[i].name = strip(SubSeq(t, 3, Len(t)))
                                   /\ txt_result[i].is_current
                              ELSE /\ txt_result[i].name = t
                                   /\ ~txt_result[i].is_current
               ELSE txt_result = <<[name |-> S_default, is_current |-> TRUE]>>

\* A successful listing with a blank line between a plain and a current line
C22_Witness ==
    /\ TxtDone("list_workspaces")
    /\ txt_call.kind = "exit" /\ txt_call.code = 0
    /\ txt_call.lines = <<<<"a">>, <<" ">>, <<" ", "*", " ", " ", "b", "\t">>>>
    /\ txt_result = <<[name |-> <<"a">>, is_current |-> FALSE],
                      [name |-> <<"b">>, is_current |-> TRUE]>>

\* The '.'-separated segments of a line
Segments(line) == split(line, ".")

\* C23 as stated: list_resources of a successful command returns one
\* StateResource per non-blank output line, in output order, whose address is
\* the trimmed line, whose type is its second-to-last '.'-separated segment
\* and whose name is its last segment; a failed or timed-out command gives
\* the empty list
C23_ResourcesParsed ==
    TxtDone("list_resources") =>
        LET kept == SelectSeq(txt_call.lines, NonBlank)
        IN  IF txt_call.kind = "exit" /\ txt_call.code = 0
            THEN /\ Len(txt_result) = Len(kept)
                 /\ \A i \in 1..Len(kept) :
                       LET t == strip(kept[i])
                           n == Len(Segments(t))
                       IN  /\ txt_result[i].address = t
                           /\ n >= 2
                           /\ txt_result[i].type = Segments(t)[n - 1]
                           /\ txt_result[i].name = Segments(t)[n]
            ELSE txt_result = <<>>

\* C23 amended: as stated for every line that holds a '.'; a line without a
\* '.' yields a StateResource whose type is the whole trimmed line and whose
\* name is empty
C23_ResourcesParsedOrUnsplit ==
    TxtDone("list_resources") =>
        LET kept == SelectSeq(txt_call.lines, NonBlank)
        IN  IF txt_call.kind = "exit" /\ txt_call.code = 0
            THEN /\ Len(txt_result) = Len(kept)
                 /\ \A i \in 1..Len(kept) :
                       LET t == strip(kept[i])
                           n == Len(Segments(t))
                       IN  /\ txt_result[i].address = t
                           /\ n >= 2 => /\ txt_result[i].type = Segments(t)[n - 1]
                                        /\ txt_result[i].name = Segments(t)[n]
                           /\ n < 2 => /\ txt_result[i].type = t
                                       /\ txt_result[i].name = <<>>
            ELSE txt_result = <<>>

\* A successful listing of a bare and a module-qualified address around a
\* blank line and a line without a '.'
C23_Witness ==
    /\ TxtDone("list_resources")
    /\ txt_call.kind = "exit" /\ txt_call.code = 0
    /\ txt_call.lines = <<<<"m", ".", "x", ".", "t", ".", "n">>, <<" ">>, <<"n">>>>
    /\ Len(txt_result) = 2
    /\ txt_result[1].type = <<"t">>
    /\ txt_result[2].name = <<>>

\* The lines of a file: its text without the final newline, cut at newlines
FileLines(text) ==
    IF text = <<>> THEN <<>>
    ELSE IF text[Len(text)] = LF THEN split(SubSeq(text, 1, Len(text) - 1), LF)
    ELSE split(text, LF)

\* The names of a mapping outside the sensitive set, in ascending order
RECURSIVE Ascending(_)
Ascending(names) ==
    IF names = {} THEN <<>>
    ELSE LET least == CHOOSE n \in names : \A o \in names : o # n => str_less(n, o)
         IN  <<least>> \o Ascending(names \ {least})

\* C24: the file write_tfvars writes holds exactly one line per entry whose
\* name is not in the sensitive set, in ascending name order, each of the
\* form name = literal; no line is an entry of a sensitive name; the file
\* ends with a single newline when an entry is written and is empty otherwise
C24_TfvarsOneLinePerEntry ==
    TxtDone("write_tfvars") =>
        LET given == {txt_call.values[i].name : i \in 1..Len(txt_call.values)}
            kept == Ascending(given \ txt_call.sensitive_names)
            lines == FileLines(txt_result)
        IN  /\ Len(lines) = Len(kept)
            /\ \A i \in 1..Len(kept) : StartsWith(lines[i], kept[i] \o <<" ", "=", " ">>)
            /\ \A i \in 1..Len(lines) : \A n \in txt_call.sensitive_names :
                  ~StartsWith(lines[i], n \o <<" ", "=", " ">>)
            /\ kept = <<>> => txt_result = <<>>
            /\ kept # <<>> => /\ txt_result[Len(txt_result)] = LF
                              /\ Len(txt_result) >= 2 => txt_result[Len(txt_result) - 1] # LF

\* C25: whatever load, set_variable_value and save calls were made, and on
\* window close, the variables section written to the .tfgui file holds no
\* value for a variable that is sensitive-flagged at the time of the write
C25_NoSensitiveValueWritten ==
    pm_written.done => DOMAIN pm_written.variables \cap pm_written.sensitive = {}

\* C26: in every state of the GUI, while an operation is running the Init,
\* Validate, Plan, Apply and Destroy buttons are disabled and Cancel is
\* enabled; when none is running Cancel is disabled, Init is enabled exactly
\* when a project is loaded and the other four exactly when a project is
\* loaded and init has succeeded
C26_ButtonStateMachine ==
    LET running == isRunning(_worker_thread, qthreads)
        has_project == current_project_path # 0
    IN  IF running
        THEN /\ \A b \in Buttons \ {"cancel"} : ~enabled[b]
             /\ enabled["cancel"]
        ELSE /\ ~enabled["cancel"]
             /\ enabled["init"] = has_project
             /\ \A b \in Buttons \ {"init", "cancel"} :
                   enabled[b] = (has_project /\ _init_done)

\* The recent-projects list of the Settings object
RecentProjects == st_heap[_settings.recent_projects].items

\* C27: after any calls of add_recent_project on a Settings object that
\* started from the defaults, the recent-projects list holds no path twice,
\* holds at most max_recent_projects paths, has the path added last at index
\* 0 and the other paths after it from the more to the less recently added
C27_RecentProjectsOrdered ==
    /\ \A i, j \in 1..Len(RecentProjects) : i # j => RecentProjects[i] # RecentProjects[j]
    /\ Len(RecentProjects) <= DEFAULT_SETTINGS.max_recent_projects
    /\ st_calls > 0 =>
          /\ RecentProjects # <<>>
          /\ st_added[RecentProjects[1]] = st_calls
    /\ \A i \in 1..Len(RecentProjects) : RecentProjects[i] \in 1..Len(st_added)
    /\ \A i, j \in 1..Len(RecentProjects) :
          i < j => st_added[RecentProjects[i]] > st_added[RecentProjects[j]]

\* More paths were added than the list may hold: the path added first is gone
C27_Witness ==
    /\ Len(st_added) > DEFAULT_SETTINGS.max_recent_projects
    /\ Len(RecentProjects) = DEFAULT_SETTINGS.max_recent_projects
    /\ ~list_contains(RecentProjects, 1)
    /\ RecentProjects[1] = Len(st_added)

\* C30: whatever load, set and add_recent_project calls were made on a
\* Settings object, DEFAULT_SETTINGS holds what defaults.py gave it, so that
\* a load without a config file gives the original default values
C30_DefaultsUnchanged ==
    Deref(DEFAULT_SETTINGS, st_heap) = Deref(DEFAULT_SETTINGS, DefaultHeap)

\* _execute has left, by a return or by an exception
ExecuteOver == ex_pc \in {"returned", "raised", "finished"}

C29_CancelReachesRunningChild ==
    (dialog = "none" /\ enabled["cancel"] /\ wk_pc = "child") =>
        /\ terraform_runner # 0
        /\ terraform_runner = _worker.runner
====
